---- MODULE Spec2Model ----
(***************************************************************************)
(* A model of quay-ci-app: the tag informer (version cache), the status    *)
(* informer and branch sync, the event handler and the Jira check.         *)
(* Go strings are TLA+ strings; a character of s is SubSeq(s, i, i).       *)
(***************************************************************************)
EXTENDS Integers, Sequences, FiniteSets, TLC

VARIABLES
    \* taginformer.TagInformer
    synced,      \* ti.synced: map "org/repo" -> bool (nil map = empty map)
    tags,        \* ti.tags: map "org/repo:xy" -> YStream.patchVersions
    remoteTags,  \* the hosting service: "org/repo" -> listing of tag refs
    nvpc,        \* position of each caller inside NextVersion
    nv,          \* locals and result of each caller's NextVersion call
    ghost,       \* history of the cache, kept for the properties only
    hist,        \* history of each caller's call, kept for the properties
    \* inputs of the YStream insertion specification
    ySeq,        \* the tags to insert (YRef), in insertion order
    yPos,        \* how many of them have been inserted
    yResult,     \* result of the last NextVersion call ("" = none yet);
                 \* removed: YStream.Remove was called on the stream
    \* branch sync: reactor.sync, HandleBranchPush, the loop of main
    cfg,         \* the configuration.Configuration loaded at start
    heads,       \* the hosting service: "owner/repo:branch" -> head commit
    status,      \* StatusInformer.status.Branches
    heap,        \* the BranchSyncStatus objects the entries point to
    now,         \* time.Now()
    pc,          \* position of each webhook worker and of the loop of main
    loc,         \* their locals
    \* checks.Jira and the handlers that run it
    jpc,         \* position of the handler inside itself and Jira.Run
    jl,          \* its parameters and locals, and its result
    gh,          \* the hosting service: comments and check runs of the PR
    jira,        \* the issue tracker: the issue, its transitions
    jlog,        \* history: the calls made to both services
    cachedGithubUserLogin,  \* Jira.cachedGithubUserLogin
    \* EventHandler.HandleEvent
    eh,          \* the delivery being handled, the reactor calls, the result
    \* a reader of the StatusInformer
    snap,        \* the Status a statusSnapshot call returned to its caller
    \* inputs of the matchCondition specification
    mc,          \* the arguments of a matchCondition call and its result
    \* reactor.HandleCheckSuiteRerequest
    cs,          \* the check suite, the position in its pull requests
    \* sync.Mutex of the TagInformer and of the StatusInformer
    mu           \* who holds each mutex, and where each goroutine is

tagVars == <<synced, tags, remoteTags, nvpc, nv, ghost, hist>>
yVars == <<ySeq, yPos, yResult>>
syncVars == <<cfg, heads, status, heap, now, pc, loc>>
jiraVars == <<jpc, jl, gh, jira, jlog, cachedGithubUserLogin>>
vars == <<synced, tags, remoteTags, nvpc, nv, ghost, hist, ySeq, yPos,
          yResult,
          cfg, heads, status, heap, now, pc, loc,
          jpc, jl, gh, jira, jlog, cachedGithubUserLogin, eh, snap, mc,
          cs, mu>>

\* what the actions of one component leave alone
restOfTag == <<yVars, syncVars, jiraVars, eh, snap, mc, cs, mu>>
restOfY == <<syncVars, jiraVars, eh, snap, mc, cs, mu>>
restOfSync == <<tagVars, yVars, jiraVars, eh, snap, mc, cs, mu>>
restOfJira == <<cfg, remoteTags, nvpc, nv, ghost, hist, yVars,
                heads, status, heap, now, pc, loc, eh, snap, mc, cs, mu>>
restOfEvent == <<remoteTags, nvpc, nv, ghost, hist, yVars, syncVars, jiraVars,
                 snap, mc, cs, mu>>
restOfStatus ==
    <<tagVars, yVars, cfg, heads, pc, loc, jiraVars, eh, mc, cs, mu>>
restOfMatch == <<tagVars, yVars, syncVars, jiraVars, eh, snap, cs, mu>>

(***************************************************************************)
(* Bounds                                                                  *)
(***************************************************************************)
MaxInserts == 3     \* length of an insertion sequence
MaxPatch == 3       \* patch numbers are 0..MaxPatch

(***************************************************************************)
(* Strings and Go maps                                                     *)
(***************************************************************************)
EmptyMap == [k \in {} |-> 0]

MapGet(m, k, zero) == IF k \in DOMAIN m THEN m[k] ELSE zero

MapPut(m, k, v) == [x \in (DOMAIN m) \cup {k} |-> IF x = k THEN v ELSE m[x]]

CharAt(s, i) == SubSeq(s, i, i)

HasPrefix(s, prefix) ==
    /\ Len(s) >= Len(prefix)
    /\ SubSeq(s, 1, Len(prefix)) = prefix

TrimPrefix(s, prefix) ==
    IF HasPrefix(s, prefix) THEN SubSeq(s, Len(prefix) + 1, Len(s)) ELSE s

IsDigit(c) == c \in {"0", "1", "2", "3", "4", "5", "6", "7", "8", "9"}

DigitValue(c) ==
    CASE c = "0" -> 0 [] c = "1" -> 1 [] c = "2" -> 2 [] c = "3" -> 3
      [] c = "4" -> 4 [] c = "5" -> 5 [] c = "6" -> 6 [] c = "7" -> 7
      [] c = "8" -> 8 [] c = "9" -> 9

\* the first position at or after i that holds no digit (\d+ is greedy)
RECURSIVE DigitsEnd(_, _)
DigitsEnd(s, i) ==
    IF i <= Len(s) /\ IsDigit(CharAt(s, i)) THEN DigitsEnd(s, i + 1) ELSE i

\* An int of the program has 64 bits, more than the integers TLC computes
\* with.  The model writes an int as its decimal numeral: digits without a
\* leading zero, "-" in front of a negative one.  math.MaxInt64 and
\* math.MinInt64:
MaxIntDigits == "9223372036854775807"

MinIntDigits == "-9223372036854775808"

\* the digit of a number 0..9
DigitOf(n) == ToString(n)

\* the first position at or after i that holds no "0"
RECURSIVE ZerosEnd(_, _)
ZerosEnd(s, i) ==
    IF i <= Len(s) /\ CharAt(s, i) = "0" THEN ZerosEnd(s, i + 1) ELSE i

\* a > b for strings of digits of the same length, from position i on
RECURSIVE DigitsAbove(_, _, _)
DigitsAbove(a, b, i) ==
    IF i > Len(a) THEN FALSE
    ELSE IF CharAt(a, i) = CharAt(b, i) THEN DigitsAbove(a, b, i + 1)
    ELSE DigitValue(CharAt(a, i)) > DigitValue(CharAt(b, i))

\* the number s denotes does not fit an int
OutOfRange(s) ==
    LET d == SubSeq(s, ZerosEnd(s, 1), Len(s))
    IN  \/ Len(d) > Len(MaxIntDigits)
        \/ Len(d) = Len(MaxIntDigits) /\ DigitsAbove(d, MaxIntDigits, 1)

\* the int a string of digits denotes: its leading zeros are dropped
IntOfDigits(s) ==
    LET d == SubSeq(s, ZerosEnd(s, 1), Len(s))
    IN  IF d = "" THEN "0" ELSE d

IsNegative(n) == HasPrefix(n, "-")

Magnitude(n) == TrimPrefix(n, "-")

\* a < b for two strings of digits without a leading zero
DigitsBelow(a, b) ==
    \/ Len(a) < Len(b)
    \/ Len(a) = Len(b) /\ DigitsAbove(b, a, 1)

\* a < b for two ints
IntLess(a, b) ==
    IF IsNegative(a)
    THEN ~IsNegative(b) \/ DigitsBelow(Magnitude(b), Magnitude(a))
    ELSE ~IsNegative(b) /\ DigitsBelow(a, b)

\* d + 1 for a string of digits
RECURSIVE IncDigits(_)
IncDigits(d) ==
    IF d = "" THEN "1"
    ELSE LET front == SubSeq(d, 1, Len(d) - 1)
             last == CharAt(d, Len(d))
         IN  IF last = "9" THEN IncDigits(front) \o "0"
             ELSE front \o DigitOf(DigitValue(last) + 1)

\* d - 1 for a string of digits that denotes a number above 0
RECURSIVE DecDigits(_)
DecDigits(d) ==
    LET front == SubSeq(d, 1, Len(d) - 1)
        last == CharAt(d, Len(d))
    IN  IF last = "0" THEN DecDigits(front) \o "9"
        ELSE front \o DigitOf(DigitValue(last) - 1)

\* n + 1 on an int: past the largest int the sum wraps to the smallest
IntPlusOne(n) ==
    IF n = MaxIntDigits THEN MinIntDigits
    ELSE IF n = "-1" THEN "0"
    ELSE IF IsNegative(n) THEN "-" \o IntOfDigits(DecDigits(Magnitude(n)))
    ELSE IncDigits(n)

\* strconv.Atoi without a sign: err is "" for nil.  The int returned with
\* an error is not in the record: addRefs does not read it.
Atoi(s) ==
    IF s = "" \/ DigitsEnd(s, 1) # Len(s) + 1
    THEN [err |-> "invalid syntax"]
    ELSE IF OutOfRange(s) THEN [err |-> "value out of range"]
    ELSE [val |-> IntOfDigits(s), err |-> ""]

\* refVersionRegex.FindStringSubmatch: <<>> is no match, else <<xy, z>>
refVersionRegex(ref) ==
    LET p == "refs/tags/v"
        n == Len(ref)
        a == Len(p) + 1
        b == DigitsEnd(ref, a)
        c == DigitsEnd(ref, b + 1)
        d == DigitsEnd(ref, c + 1)
    IN  IF ~HasPrefix(ref, p) THEN <<>>
        ELSE IF b = a \/ b > n \/ CharAt(ref, b) # "." THEN <<>>
        ELSE IF c = b + 1 \/ c > n \/ CharAt(ref, c) # "." THEN <<>>
        ELSE IF d = c + 1 \/ d # n + 1 THEN <<>>
        ELSE <<SubSeq(ref, a, c - 1), SubSeq(ref, c + 1, n)>>

(***************************************************************************)
(* taginformer.YStream                                                     *)
(***************************************************************************)
\* sort.SearchInts: binary search for the smallest 0-based index i with
\* a[i] >= x, len(a) if there is none
RECURSIVE SearchFrom(_, _, _, _)
SearchFrom(a, x, i, j) ==
    IF i < j
    THEN LET h == (i + j) \div 2
         IN  IF IntLess(a[h + 1], x) THEN SearchFrom(a, x, h + 1, j)
             ELSE SearchFrom(a, x, i, h)
    ELSE i

SearchInts(a, x) == SearchFrom(a, x, 0, Len(a))

YStreamAddAppend(patchVersions, z) ==
    LET i == SearchInts(patchVersions, z)
    IN  IF i < Len(patchVersions) /\ patchVersions[i + 1] = z
        THEN patchVersions
        ELSE Append(patchVersions, z)

\* inserts z in its place whether it is there or not
YStreamAddAgain(patchVersions, z) ==
    LET i == SearchInts(patchVersions, z)
    IN  SubSeq(patchVersions, 1, i) \o <<z>>
            \o SubSeq(patchVersions, i + 1, Len(patchVersions))

\* inserts z in front of the larger of its neighbours
YStreamAddMisplaced(patchVersions, z) ==
    LET i == SearchInts(patchVersions, z)
        at == IF i < Len(patchVersions) THEN i + 1 ELSE i
    IN  IF i < Len(patchVersions) /\ patchVersions[i + 1] = z
        THEN patchVersions
        ELSE SubSeq(patchVersions, 1, at) \o <<z>>
                 \o SubSeq(patchVersions, at + 1, Len(patchVersions))

YStreamAdd(patchVersions, z) ==
    LET i == SearchInts(patchVersions, z)
    IN  IF i < Len(patchVersions) /\ patchVersions[i + 1] = z
        THEN patchVersions
        ELSE SubSeq(patchVersions, 1, i) \o <<z>>
                 \o SubSeq(patchVersions, i + 1, Len(patchVersions))

YStreamRemove(patchVersions, z) ==
    LET i == SearchInts(patchVersions, z)
    IN  IF i < Len(patchVersions) /\ patchVersions[i + 1] = z
        THEN SubSeq(patchVersions, 1, i)
                 \o SubSeq(patchVersions, i + 2, Len(patchVersions))
        ELSE patchVersions

\* a nil *YStream is the empty sequence
YStreamNext(patchVersions) ==
    IF Len(patchVersions) = 0 THEN "0"
    ELSE IntPlusOne(patchVersions[Len(patchVersions)])

(***************************************************************************)
(* taginformer.TagInformer                                                 *)
(***************************************************************************)
key(org, repo, xy) == org \o "/" \o repo \o ":" \o xy

repoKey(org, repo) == org \o "/" \o repo

hasSynced(syncedMap, org, repo) == MapGet(syncedMap, repoKey(org, repo), FALSE)

\* the loop of addRefs over the listing, from its element i on
RECURSIVE addRefsFrom(_, _, _, _, _)
addRefsFrom(tagsMap, org, repo, refs, i) ==
    IF i > Len(refs) THEN tagsMap
    ELSE LET match == refVersionRegex(refs[i])
         IN  IF match = <<>> THEN addRefsFrom(tagsMap, org, repo, refs, i + 1)
             ELSE LET k == key(org, repo, match[1])
                      z == Atoi(match[2])
                      y == MapGet(tagsMap, k, <<>>)
                  IN  IF z.err # ""
                      THEN addRefsFrom(tagsMap, org, repo, refs, i + 1)
                      ELSE addRefsFrom(MapPut(tagsMap, k,
                                              YStreamAdd(y, z.val)),
                                       org, repo, refs, i + 1)

addRefsTags(tagsMap, org, repo, refs) == addRefsFrom(tagsMap, org, repo, refs, 1)

addRefsSynced(syncedMap, org, repo) == MapPut(syncedMap, repoKey(org, repo), TRUE)

\* the locked tail of NextVersion: the formatted next version (%d writes
\* the numeral of the int, with its sign)
NextVersionRead(tagsMap, org, repo, xy) ==
    xy \o "." \o YStreamNext(MapGet(tagsMap, key(org, repo, xy), <<>>))

InvalidateCacheKeepSynced(syncedMap, tagsMap) ==
    [synced |-> syncedMap, tags |-> EmptyMap]

InvalidateCacheKeepTags(syncedMap, tagsMap) ==
    [synced |-> EmptyMap, tags |-> tagsMap]

\* InvalidateCache: both maps are reset to nil
InvalidateCache(syncedMap, tagsMap) ==
    [synced |-> EmptyMap, tags |-> EmptyMap]

(***************************************************************************)
(* configuration.Configuration                                             *)
(***************************************************************************)
NoRef == [Owner |-> "", Repo |-> "", Branch |-> ""]

\* BranchReference.String
String(br) == br.Owner \o "/" \o br.Repo \o ":" \o br.Branch

\* Jira{}: no project key, the check is off
NoJira == [Key |-> "", FixVersionPrefix |-> "", Rules |-> <<>>]

\* one destination, release, synced from master of the same repository
CfgOne ==
    [AppID |-> 275455,
     Repositories |-> <<
        [Owner |-> "quay", Repo |-> "quay", Jira |-> NoJira,
         Branches |-> <<
            [Name |-> "master", Version |-> "", SyncFrom |-> NoRef],
            [Name |-> "release", Version |-> "3.8",
             SyncFrom |-> [Owner |-> "", Repo |-> "", Branch |-> "master"]]>>]>>]

\* a second destination, in another repository, synced from the same master
CfgTwo ==
    [AppID |-> 275455,
     Repositories |-> <<
        [Owner |-> "quay", Repo |-> "quay", Jira |-> NoJira,
         Branches |-> <<
            [Name |-> "master", Version |-> "", SyncFrom |-> NoRef],
            [Name |-> "release", Version |-> "3.8",
             SyncFrom |-> [Owner |-> "", Repo |-> "", Branch |-> "master"]]>>],
        [Owner |-> "quay", Repo |-> "clair", Jira |-> NoJira,
         Branches |-> <<
            [Name |-> "stable", Version |-> "",
             SyncFrom |-> [Owner |-> "quay", Repo |-> "quay",
                           Branch |-> "master"]]>>]>>]

Configs == {CfgOne, CfgTwo}

\* syncFrom of a branch, a missing owner or repo taken from its repository
SyncFromOf(repo, branch) ==
    [Owner |-> IF branch.SyncFrom.Owner = "" THEN repo.Owner
               ELSE branch.SyncFrom.Owner,
     Repo |-> IF branch.SyncFrom.Repo = "" THEN repo.Repo
              ELSE branch.SyncFrom.Repo,
     Branch |-> branch.SyncFrom.Branch]

\* BranchesSyncedFrom that compares syncFrom as it is written in the
\* configuration, a missing owner or repo not filled in
RECURSIVE BranchesSyncedFromAsWritten(_, _, _, _, _, _)
BranchesSyncedFromAsWritten(c, i, j, owner, repoName, branchName) ==
    IF i > Len(c.Repositories) THEN <<>>
    ELSE LET repo == c.Repositories[i]
         IN  IF j > Len(repo.Branches)
             THEN BranchesSyncedFromAsWritten(c, i + 1, 1, owner, repoName,
                                              branchName)
             ELSE LET branch == repo.Branches[j]
                      rest == BranchesSyncedFromAsWritten(c, i, j + 1, owner,
                                                          repoName, branchName)
                  IN  IF branch.SyncFrom.Branch = "" THEN rest
                      ELSE IF /\ branch.SyncFrom.Owner = owner
                              /\ branch.SyncFrom.Repo = repoName
                              /\ branch.SyncFrom.Branch = branchName
                      THEN <<[Owner |-> repo.Owner, Repo |-> repo.Repo,
                              Branch |-> branch.Name]>> \o rest
                      ELSE rest

RECURSIVE BranchesSyncedFromLoop(_, _, _, _, _, _)
BranchesSyncedFromLoop(c, i, j, owner, repoName, branchName) ==
    IF i > Len(c.Repositories) THEN <<>>
    ELSE LET repo == c.Repositories[i]
         IN  IF j > Len(repo.Branches)
             THEN BranchesSyncedFromLoop(c, i + 1, 1, owner, repoName, branchName)
             ELSE LET branch == repo.Branches[j]
                      syncFrom == SyncFromOf(repo, branch)
                      rest == BranchesSyncedFromLoop(c, i, j + 1, owner,
                                                     repoName, branchName)
                  IN  IF branch.SyncFrom.Branch = "" THEN rest
                      ELSE IF /\ syncFrom.Owner = owner
                              /\ syncFrom.Repo = repoName
                              /\ syncFrom.Branch = branchName
                      THEN <<[Owner |-> repo.Owner, Repo |-> repo.Repo,
                              Branch |-> branch.Name]>> \o rest
                      ELSE rest

BranchesSyncedFrom(c, owner, repoName, branchName) ==
    BranchesSyncedFromLoop(c, 1, 1, owner, repoName, branchName)

\* the (syncTo, syncFrom) pairs of one pass of the loop of main
RECURSIVE PeriodicPairsLoop(_, _, _)
PeriodicPairsLoop(c, i, j) ==
    IF i > Len(c.Repositories) THEN <<>>
    ELSE LET repo == c.Repositories[i]
         IN  IF j > Len(repo.Branches) THEN PeriodicPairsLoop(c, i + 1, 1)
             ELSE LET branch == repo.Branches[j]
                      rest == PeriodicPairsLoop(c, i, j + 1)
                  IN  IF branch.SyncFrom.Branch = "" THEN rest
                      ELSE <<[to |-> [Owner |-> repo.Owner, Repo |-> repo.Repo,
                                      Branch |-> branch.Name],
                              from |-> SyncFromOf(repo, branch)]>> \o rest

PeriodicPairs(c) == PeriodicPairsLoop(c, 1, 1)

(***************************************************************************)
(* StatusInformer                                                          *)
(***************************************************************************)
\* the zero time.Time and the nil *BranchSyncStatus
ZeroTime == 0
NilPtr == 0

\* a search that finds no entry
FindBranchMissed(branches, branch, i) == 0

\* index of the first entry for branch, 0 if there is none
RECURSIVE FindBranch(_, _, _)
FindBranch(branches, branch, i) ==
    IF i > Len(branches) THEN 0
    ELSE IF branches[i].Branch = branch THEN i
    ELSE FindBranch(branches, branch, i + 1)

UpdateBranchSyncStatusStateOnly(branches, objects, branch, state, message, t) ==
    LET i == FindBranch(branches, branch, 1)
    IN  IF i # 0
        THEN LET fresh == branches[i].SyncStatus = NilPtr
                 addr == IF fresh THEN Len(objects) + 1
                         ELSE branches[i].SyncStatus
                 old == IF fresh
                        THEN [Status |-> "", Message |-> "",
                              LastHeartbeatTime |-> ZeroTime,
                              LastTransitionTime |-> ZeroTime]
                        ELSE objects[addr]
                 changed == old.Status # state
                 new == [Status |-> IF changed THEN state ELSE old.Status,
                         Message |-> IF changed THEN message ELSE old.Message,
                         LastHeartbeatTime |-> t,
                         LastTransitionTime |->
                             IF changed THEN t ELSE old.LastTransitionTime]
             IN  [status |-> [branches EXCEPT ![i].SyncStatus = addr],
                  heap |-> IF fresh THEN Append(objects, new)
                           ELSE [objects EXCEPT ![addr] = new]]
        ELSE [status |-> Append(branches,
                            [Branch |-> branch, FixVersion |-> "",
                             SyncStatus |-> Len(objects) + 1]),
              heap |-> Append(objects,
                          [Status |-> state, Message |-> message,
                           LastHeartbeatTime |-> t,
                           LastTransitionTime |-> t])]

\* UpdateBranchSyncStatus on the entries and the objects they point to
UpdateBranchSyncStatus(branches, objects, branch, state, message, t) ==
    LET i == FindBranch(branches, branch, 1)
    IN  IF i # 0
        THEN LET fresh == branches[i].SyncStatus = NilPtr
                 addr == IF fresh THEN Len(objects) + 1
                         ELSE branches[i].SyncStatus
                 old == IF fresh
                        THEN [Status |-> "", Message |-> "",
                              LastHeartbeatTime |-> ZeroTime,
                              LastTransitionTime |-> ZeroTime]
                        ELSE objects[addr]
                 changed == old.Status # state \/ old.Message # message
                 new == [Status |-> IF changed THEN state ELSE old.Status,
                         Message |-> IF changed THEN message ELSE old.Message,
                         LastHeartbeatTime |-> t,
                         LastTransitionTime |->
                             IF changed THEN t ELSE old.LastTransitionTime]
             IN  [status |-> [branches EXCEPT ![i].SyncStatus = addr],
                  heap |-> IF fresh THEN Append(objects, new)
                           ELSE [objects EXCEPT ![addr] = new]]
        ELSE [status |-> Append(branches,
                            [Branch |-> branch, FixVersion |-> "",
                             SyncStatus |-> Len(objects) + 1]),
              heap |-> Append(objects,
                          [Status |-> state, Message |-> message,
                           LastHeartbeatTime |-> t,
                           LastTransitionTime |-> t])]

\* the sync status the entries hold for a branch ("" fields if none)
StatusOf(branches, objects, branch) ==
    LET i == FindBranch(branches, branch, 1)
    IN  IF i = 0 \/ branches[i].SyncStatus = NilPtr
        THEN [Status |-> "", Message |-> "",
              LastHeartbeatTime |-> ZeroTime, LastTransitionTime |-> ZeroTime]
        ELSE objects[branches[i].SyncStatus]

(***************************************************************************)
(* The hosting service's branches                                          *)
(***************************************************************************)
Commits == {"c1", "c2", "x1"}

\* c2 and x1 are children of c1, neither an ancestor of the other
FastForward(old, new) ==
    old = new \/ <<old, new>> \in {<<"c1", "c2">>, <<"c1", "x1">>}

\* Git.UpdateRef as the hosting service decides it
UpdateRefAccepted(headsMap, ref, sha, force) ==
    force \/ FastForward(headsMap[ref], sha)

Workers == {"w1"}
Periodic == "periodic"
Procs == Workers \cup {Periodic}

NoStatus ==
    [Status |-> "", Message |-> "",
     LastHeartbeatTime |-> ZeroTime, LastTransitionTime |-> ZeroTime]

\* queue: the (to, from) pairs still to sync; dest .. err: the locals of
\* reactor.sync; wrote: the status it stored; errs: the errs of
\* HandleBranchPush; ret: what the handler returned.  History: pushed (the
\* branch of the event), log (the calls made to the hosting service),
\* outcomes (destination and error of each sync that returned), second (the
\* sync started with the pair in sync and no branch has moved since)
NoLocals ==
    [queue |-> <<>>, dest |-> NoRef, src |-> NoRef, srcSHA |-> "",
     dstSHA |-> "", err |-> "", wrote |-> NoStatus, errs |-> <<>>,
     done |-> FALSE, ret |-> <<>>, pushed |-> NoRef, log |-> <<>>,
     outcomes |-> <<>>, second |-> FALSE]

BranchKeys == {"quay/quay:master", "quay/quay:release", "quay/clair:stable"}

SyncIdle ==
    /\ heads = [k \in BranchKeys |-> "c1"]
    /\ status = <<>>
    /\ heap = <<>>
    /\ now = 1
    /\ pc = [p \in Procs |-> IF p = Periodic THEN "sleep" ELSE "idle"]
    /\ loc = [p \in Procs |-> NoLocals]

SyncInitIdle == cfg = CfgOne /\ SyncIdle

(***************************************************************************)
(* checks.Jira: configuration, regular expressions, matchCondition         *)
(***************************************************************************)
JiraProject == "PROJQUAY"

NoCondition ==
    [Status |-> <<>>, Merged |-> <<>>, HasFixVersion |-> <<>>, Event |-> <<>>]

\* a *bool of a JiraCondition is <<>> (nil) or <<b>>
RuleClose ==
    [TransitionTo |-> "Closed", SetFixVersion |-> TRUE, Comment |-> "merged",
     When |-> [NoCondition EXCEPT !.Merged = <<TRUE>>, !.Event = <<"closed">>]]

RuleAny ==
    [TransitionTo |-> "In Progress", SetFixVersion |-> FALSE, Comment |-> "",
     When |-> NoCondition]

RuleOpen ==
    [TransitionTo |-> "Review", SetFixVersion |-> FALSE, Comment |-> "started",
     When |-> [NoCondition EXCEPT !.Status = <<"To Do">>,
                                  !.Event = <<"opened", "recheck">>]]

RuleVersion ==
    [TransitionTo |-> "", SetFixVersion |-> TRUE, Comment |-> "",
     When |-> [NoCondition EXCEPT !.HasFixVersion = <<FALSE>>]]

RuleLists ==
    {<<>>, <<RuleClose, RuleAny>>, <<RuleAny, RuleClose>>,
     <<RuleOpen, RuleClose, RuleAny>>, <<RuleVersion, RuleAny>>}

JiraOf(rules) ==
    [Key |-> JiraProject, FixVersionPrefix |-> "quay-v", Rules |-> rules]

JiraConfigs == {NoJira} \cup {JiraOf(rules) : rules \in RuleLists}

\* the configuration of the sync, with a Jira section for quay/quay
CfgJira(j) == [CfgOne EXCEPT !.Repositories[1].Jira = j]

RECURSIVE ConfigurationJiraFrom(_, _, _, _)
ConfigurationJiraFrom(c, i, owner, repoName) ==
    IF i > Len(c.Repositories) THEN NoJira
    ELSE IF c.Repositories[i].Owner = owner /\ c.Repositories[i].Repo = repoName
    THEN c.Repositories[i].Jira
    ELSE ConfigurationJiraFrom(c, i + 1, owner, repoName)

\* Configuration.Jira
ConfigurationJira(c, owner, repoName) ==
    ConfigurationJiraFrom(c, 1, owner, repoName)

RECURSIVE ConfigurationBranchFrom(_, _, _, _, _, _)
ConfigurationBranchFrom(c, i, j, owner, repoName, branchName) ==
    IF i > Len(c.Repositories)
    THEN [Name |-> branchName, Version |-> "", SyncFrom |-> NoRef]
    ELSE LET repo == c.Repositories[i]
         IN  IF ~(repo.Owner = owner /\ repo.Repo = repoName)
                    \/ j > Len(repo.Branches)
             THEN ConfigurationBranchFrom(c, i + 1, 1, owner, repoName,
                                          branchName)
             ELSE IF repo.Branches[j].Name = branchName THEN repo.Branches[j]
             ELSE ConfigurationBranchFrom(c, i, j + 1, owner, repoName,
                                          branchName)

\* Configuration.Branch
ConfigurationBranch(c, owner, repoName, branchName) ==
    ConfigurationBranchFrom(c, 1, 1, owner, repoName, branchName)

\* the character of s at i, "" outside of s
At(s, i) == IF i >= 1 /\ i <= Len(s) THEN SubSeq(s, i, i) ELSE ""

IsUpper(c) ==
    c \in {"A", "B", "C", "D", "E", "F", "G", "H", "I", "J", "K", "L", "M",
           "N", "O", "P", "Q", "R", "S", "T", "U", "V", "W", "X", "Y", "Z"}

\* end of the run of [A-Z] that starts at i
RECURSIVE UpperEnd(_, _)
UpperEnd(s, i) == IF IsUpper(At(s, i)) THEN UpperEnd(s, i + 1) ELSE i

\* ' \(([A-Z]+-[0-9]+)\)$' matches s from i on: the end of the key, else 0
titleJiraRegexAt(s, i) ==
    IF At(s, i) = " " /\ At(s, i + 1) = "("
    THEN LET u == UpperEnd(s, i + 2)
         IN  IF u > i + 2 /\ At(s, u) = "-"
             THEN LET d == DigitsEnd(s, u + 1)
                  IN  IF d > u + 1 /\ At(s, d) = ")" /\ d = Len(s)
                      THEN d - 1 ELSE 0
             ELSE 0
    ELSE 0

RECURSIVE titleJiraRegexFrom(_, _)
titleJiraRegexFrom(s, i) ==
    IF i > Len(s) THEN <<>>
    ELSE IF titleJiraRegexAt(s, i) # 0
    THEN <<SubSeq(s, i, Len(s)), SubSeq(s, i + 2, titleJiraRegexAt(s, i))>>
    ELSE titleJiraRegexFrom(s, i + 1)

\* titleJiraRegex.FindStringSubmatch: <<>> or <<match, key>>
titleJiraRegex(s) == titleJiraRegexFrom(s, 1)

\* Run line 268: the check is skipped for this key
TitleSkippedOnlyWithoutKey(k, project) == k = ""

TitleSkipped(k, project) == ~HasPrefix(k, project \o "-")

\* the check run reported for a skipped title (in the texts ' stands for the
\* backquote of the source, which a TLA+ string cannot hold)
SkipReport(k, project) ==
    [conclusion |-> "success",
     title |-> "Pull request does not have a Jira issue in the title",
     summary |->
        (IF k # ""
         THEN "This check is skipped because the Jira issue '" \o k
                  \o "' is not from the " \o project \o " project.\n"
         ELSE "This check is skipped because the pull request title does not have a Jira issue in the title.\n")
        \o "\nThe title should be in the format 'Title (" \o project
        \o "-123)' and the Jira issue should be from the " \o project
        \o " project.\n"]

ValidReport ==
    [conclusion |-> "success",
     title |-> "Pull request title has a valid Jira issue",
     summary |-> "The pull request title is valid and has a Jira issue.\n"]

\* the report of a missing issue as a passing check
MissingReportPassing(k) ==
    [conclusion |-> "success",
     title |-> "Jira issue " \o k \o " does not exist",
     summary |-> "The Jira issue '" \o k \o "' does not exist.\n"]

MissingReport(k) ==
    [conclusion |-> "failure",
     title |-> "Jira issue " \o k \o " does not exist",
     summary |-> "The Jira issue '" \o k \o "' does not exist.\n"]

Unreachable ==
    "The Jira server is not reachable. You can retry the check by commenting '/recheck' on the pull request."

RequestFailed(code) ==
    "The Jira request failed with status code " \o code
        \o ". You can retry the check by commenting '/recheck' on the pull request."

internalErrorMarker == "<!-- quay-ci-app: jira internal error -->"

\* strings.Contains
Contains(s, sub) ==
    \E i \in 1..(Len(s) - Len(sub) + 1) : SubSeq(s, i, i + Len(sub) - 1) = sub

RECURSIVE containsFrom(_, _, _)
containsFrom(list, str, i) ==
    IF i > Len(list) THEN FALSE
    ELSE IF list[i] = str THEN TRUE
    ELSE containsFrom(list, str, i + 1)

contains(list, str) == containsFrom(list, str, 1)

\* matchCondition without the test for an empty fixVersion
matchConditionAnyVersion(event, issue, pr, fixVersion, cond) ==
    IF Len(cond.Status) > 0 /\ ~contains(cond.Status, issue.Status) THEN FALSE
    ELSE IF cond.Merged # <<>> /\ pr.Merged # cond.Merged[1] THEN FALSE
    ELSE IF /\ cond.HasFixVersion # <<>>
            /\ contains(issue.FixVersions, fixVersion) # cond.HasFixVersion[1]
    THEN FALSE
    ELSE IF Len(cond.Event) # 0 /\ ~contains(cond.Event, event) THEN FALSE
    ELSE TRUE

\* issue: the Status.Name and the names of the FixVersions of the issue;
\* pr.Merged: MergedAt is set
matchCondition(event, issue, pr, fixVersion, cond) ==
    IF Len(cond.Status) > 0 /\ ~contains(cond.Status, issue.Status) THEN FALSE
    ELSE IF cond.Merged # <<>> /\ pr.Merged # cond.Merged[1] THEN FALSE
    ELSE IF cond.HasFixVersion # <<>> /\ fixVersion = "" THEN FALSE
    ELSE IF /\ cond.HasFixVersion # <<>>
            /\ contains(issue.FixVersions, fixVersion) # cond.HasFixVersion[1]
    THEN FALSE
    ELSE IF Len(cond.Event) # 0 /\ ~contains(cond.Event, event) THEN FALSE
    ELSE TRUE

\* the index of the first rule from i on whose condition matches, else 0
RECURSIVE FirstMatchFrom(_, _, _, _, _, _)
FirstMatchFrom(rules, i, event, issue, pr, fixVersion) ==
    IF i > Len(rules) THEN 0
    ELSE IF matchCondition(event, issue, pr, fixVersion, rules[i].When) THEN i
    ELSE FirstMatchFrom(rules, i + 1, event, issue, pr, fixVersion)

\* Run lines 315-323: the rule the loop looks at after one was applied
\* (break: none)
NextAfterApplyContinue(i, n) == i + 1

NextAfterApply(i, n) == n + 1

\* \s of a regular expression
IsSpace(c) == c \in {" ", "\t", "\n", "\f", "\r"}

\* The strings TLC keeps are ASCII.  A character of a string of the program
\* that is outside ASCII is written as its escape: a backslash, u and the
\* four hexadecimal digits of its code point (a backslash of the program's
\* string would be written as two).  U+212A (KELVIN SIGN):
KelvinSign == "\\u212A"

\* (?i): the lower-case letter of an upper-case one
Lower(c) ==
    CASE c = "R" -> "r" [] c = "E" -> "e" [] c = "C" -> "c" [] c = "H" -> "h"
      [] c = "K" -> "k" [] OTHER -> c

RECURSIVE LowerString(_)
LowerString(s) ==
    IF s = "" THEN "" ELSE Lower(At(s, 1)) \o LowerString(SubSeq(s, 2, Len(s)))

\* end of the run of \s that starts at i
RECURSIVE SpaceEnd(_, _)
SpaceEnd(s, i) == IF IsSpace(At(s, i)) THEN SpaceEnd(s, i + 1) ELSE i

\* (?m)^ and (?m)$
LineStart(s, i) == i = 1 \/ At(s, i - 1) = "\n"

LineEnd(s, i) == i = Len(s) + 1 \/ At(s, i) = "\n"

\* (?i)k at position i, the positions after its matches: case folding is
\* that of Unicode, under which k, K and U+212A are one letter
FoldK(s, i) ==
    {j \in {i + 1} : Lower(At(s, i)) = "k"}
        \cup {j \in {i + Len(KelvinSign)} :
                 /\ j <= Len(s) + 1
                 /\ SubSeq(s, i, j - 1) = KelvinSign}

recheckRegexAnywhere(s) ==
    \E i \in 1..Len(s) :
        /\ i + 6 <= Len(s)
        /\ LowerString(SubSeq(s, i, i + 6)) = "/rechec"
        /\ \E e \in FoldK(s, i + 7) :
              \E j \in e..SpaceEnd(s, e) : LineEnd(s, j)

\* recheckRegex.MatchString: (?mi)^/recheck\s*$
recheckRegex(s) ==
    \E i \in 1..Len(s) :
        /\ LineStart(s, i)
        /\ i + 6 <= Len(s)
        /\ LowerString(SubSeq(s, i, i + 6)) = "/rechec"
        /\ \E e \in FoldK(s, i + 7) :
              \E j \in e..SpaceEnd(s, e) : LineEnd(s, j)

(***************************************************************************)
(* checks.Jira: the pull request, the issue, the state before an event     *)
(***************************************************************************)
BotLogin == "quay-ci-app[bot]"

NoBranch == [Name |-> "", Version |-> "", SyncFrom |-> NoRef]
NoPR == [Number |-> 0, Title |-> "", Merged |-> FALSE, Base |-> "",
         HeadSHA |-> ""]
NoIssue == [Key |-> "", Status |-> "", FixVersions |-> <<>>]
NoReport == [conclusion |-> "", title |-> "", summary |-> ""]

\* source .. body: the event and its handler; wrap: the handler wraps the
\* error of Run; event .. pr: the parameters of Run; key .. rule: locals of
\* Run and of the functions it calls (report, after: the check run being
\* reported and where Run goes on after it); ret: the handler's result.
\* History: evaluated (the rules matchCondition was called for), resp (the
\* answer to Issue.Get)
\* jpc is "panic" when the goroutine of the handler has panicked: the
\* handler returns nothing, the server goes on
NoJl ==
    [source |-> "", state |-> "", isPR |-> FALSE, body |-> "", wrap |-> FALSE,
     event |-> "", jiraConfig |-> NoJira, branchConfig |-> NoBranch,
     pr |-> NoPR, key |-> "", report |-> NoReport, after |-> "",
     checkErr |-> "", createdBefore |-> ZeroTime, userLogin |-> "",
     todo |-> <<>>,
     issue |-> NoIssue, fixVersion |-> "", next |-> 0, rule |-> 0,
     transition |-> "", evaluated |-> <<>>, resp |-> "", ret |-> ""]

Transitions ==
    <<[ID |-> "11", Name |-> "Start", To |-> "In Progress"],
      [ID |-> "21", Name |-> "Close", To |-> "Closed"],
      [ID |-> "31", Name |-> "Done", To |-> "Closed"]>>

NoTracker ==
    [exists |-> FALSE, Status |-> "", FixVersions |-> <<>>, Comments |-> <<>>,
     Transitions |-> <<>>]

JiraIdle ==
    /\ jpc = "idle"
    /\ jl = NoJl
    /\ gh = [comments |-> <<>>, checkRuns |-> <<>>, time |-> 1]
    /\ jira = NoTracker
    /\ jlog = <<>>
    /\ cachedGithubUserLogin = ""

\* no delivery handled yet, no snapshot taken, matchCondition not called
NoDelivery ==
    [pc |-> "idle", eventType |-> "", body |-> <<>>, calls |-> <<>>,
     ret |-> ""]

NoSnapshot == [taken |-> FALSE, Branches |-> <<>>, seen |-> <<>>]

NoMatch == [called |-> FALSE, result |-> FALSE]

\* no check suite handled yet
NoSuite ==
    [pc |-> "idle", app |-> 0, prs |-> <<>>, i |-> 0, fetched |-> <<>>,
     runs |-> <<>>, ret |-> ""]

\* no goroutine is in a function of either informer, both mutexes are free
Goroutines == {"g1", "g2"}

\* a goroutine outside every handler
NoGoroutine ==
    [op |-> "", pc |-> "", phase |-> "idle", srcSHA |-> "", dstSHA |-> "",
     err |-> "", refs |-> <<>>, result |-> ""]

NoMutex == [tag |-> "", status |-> "", at |-> [g \in Goroutines |-> NoGoroutine]]

RestIdle ==
    /\ eh = NoDelivery /\ snap = NoSnapshot /\ mc = NoMatch /\ cs = NoSuite
    /\ mu = NoMutex

JiraInitIdle == JiraIdle /\ RestIdle

(***************************************************************************)
(* The tag informer and its callers                                        *)
(***************************************************************************)
Callers == {"c1", "c2"}

Org == "quay"
Repos == {"quay", "clair"}
Streams == {"3.8", "3.9"}

\* the tags that can be pushed to each repository
TagRefs(repo) ==
    IF repo = "quay" THEN {"refs/tags/v3.8.1", "refs/tags/v3.9.0"}
    ELSE {"refs/tags/v3.8.0"}

\* ghost.quiet: the last invalidation ran with no call in flight and no two
\* calls have overlapped since; then ghost.called are the repositories
\* NextVersion was called for since, and ghost.hadSynced the repositories that
\* were synced when the cache was invalidated
NoGhost == [quiet |-> FALSE, called |-> {}, hadSynced |-> {}]

AllIdle == \A c \in Callers : nvpc[c] = "idle"

\* History of a call: race, it started while the repository was not synced
\* and another call for the repository was listing the tags or holding the
\* listing, and the cache was not invalidated since; retry, it started after
\* a call for the repository had failed and with the repository still not
\* synced.  The specification of the tag informer keeps no such history.
NoHistory == [c \in Callers |-> [race |-> FALSE, retry |-> FALSE]]

NoCall ==
    [org |-> "", repo |-> "", xy |-> "", refs |-> <<>>, fetches |-> 0,
     status |-> "none", result |-> "", first |-> "no"]

TagInit ==
    /\ synced = EmptyMap
    /\ tags = EmptyMap
    /\ remoteTags = [r \in {repoKey(Org, repo) : repo \in Repos} |-> <<>>]
    /\ nvpc = [c \in Callers |-> "idle"]
    /\ nv = [c \in Callers |-> NoCall]
    /\ ghost = NoGhost
    /\ hist = NoHistory

YInitIdle ==
    /\ ySeq = <<>>
    /\ yPos = 0
    /\ yResult = [xy |-> "", version |-> "", removed |-> FALSE]

\* a tag is pushed to the hosting service (the listing keeps creation order)
TagCreated(repo, ref) ==
    LET rk == repoKey(Org, repo)
    IN  /\ \A i \in 1..Len(remoteTags[rk]) : remoteTags[rk][i] # ref
        /\ remoteTags' = [remoteTags EXCEPT ![rk] = Append(@, ref)]
        /\ UNCHANGED <<synced, tags, nvpc, nv, ghost, restOfTag>>

\* a caller enters NextVersion(org, repo, xy) and tests hasSynced
NVCall(c, repo, xy) ==
    /\ nvpc[c] = "idle"
    /\ nvpc' = [nvpc EXCEPT ![c] =
                  IF hasSynced(synced, Org, repo) THEN "read" ELSE "init"]
    /\ nv' = [d \in Callers |->
                IF d = c
                THEN [org |-> Org, repo |-> repo, xy |-> xy, refs |-> <<>>,
                      fetches |-> 0, status |-> "running", result |-> "",
                      first |->
                          IF ghost.quiet /\ AllIdle
                             /\ repoKey(Org, repo) \notin ghost.called
                          THEN IF repoKey(Org, repo) \in ghost.hadSynced
                               THEN "resync" ELSE "sync"
                          ELSE "no"]
                ELSE [nv[d] EXCEPT !.first = "no"]]
    /\ ghost' = IF ghost.quiet /\ AllIdle
                THEN [ghost EXCEPT !.called = @ \cup {repoKey(Org, repo)}]
                ELSE NoGhost
    /\ UNCHANGED <<synced, tags, remoteTags, restOfTag>>

\* init: ListMatchingRefs answers with the listing
NVInitFetch(c) ==
    /\ nvpc[c] = "init"
    /\ nvpc' = [nvpc EXCEPT ![c] = "addRefs"]
    /\ nv' = [nv EXCEPT ![c].refs = remoteTags[repoKey(nv[c].org, nv[c].repo)],
                        ![c].fetches = @ + 1]
    /\ UNCHANGED <<synced, tags, remoteTags, ghost, restOfTag>>

\* the failing call marks the repository synced all the same
NVInitFailSynced(c) ==
    /\ nvpc[c] = "init"
    /\ nvpc' = [nvpc EXCEPT ![c] = "idle"]
    /\ nv' = [nv EXCEPT ![c].fetches = @ + 1, ![c].status = "error"]
    /\ synced' = addRefsSynced(synced, nv[c].org, nv[c].repo)
    /\ UNCHANGED <<tags, remoteTags, ghost, restOfTag>>

\* init: ListMatchingRefs fails, NextVersion returns the error
NVInitFail(c) ==
    /\ nvpc[c] = "init"
    /\ nvpc' = [nvpc EXCEPT ![c] = "idle"]
    /\ nv' = [nv EXCEPT ![c].fetches = @ + 1, ![c].status = "error"]
    /\ UNCHANGED <<synced, tags, remoteTags, ghost, restOfTag>>

\* init: addRefs, under the mutex
NVAddRefs(c) ==
    /\ nvpc[c] = "addRefs"
    /\ nvpc' = [nvpc EXCEPT ![c] = "read"]
    /\ tags' = addRefsTags(tags, nv[c].org, nv[c].repo, nv[c].refs)
    /\ synced' = addRefsSynced(synced, nv[c].org, nv[c].repo)
    /\ nv' = [nv EXCEPT ![c].refs = <<>>]
    /\ UNCHANGED <<remoteTags, ghost, restOfTag>>

\* NextVersion, the locked read of the next patch version
NVRead(c) ==
    /\ nvpc[c] = "read"
    /\ nvpc' = [nvpc EXCEPT ![c] = "idle"]
    /\ nv' = [nv EXCEPT ![c].status = "ok",
                        ![c].result = NextVersionRead(tags, nv[c].org,
                                                      nv[c].repo, nv[c].xy)]
    /\ UNCHANGED <<synced, tags, remoteTags, ghost, restOfTag>>

\* reactor.HandleTagPush: r.invalidateTagCache(), whatever the repository
HandleTagPush(org, repo, tag) ==
    /\ synced' = InvalidateCache(synced, tags).synced
    /\ tags' = InvalidateCache(synced, tags).tags
    /\ ghost' = IF AllIdle
                THEN [quiet |-> TRUE, called |-> {}, hadSynced |-> DOMAIN synced]
                ELSE NoGhost
    /\ UNCHANGED <<remoteTags, nvpc, nv, restOfTag>>

TagInitSpec == TagInit /\ YInitIdle /\ SyncInitIdle /\ JiraInitIdle

TagNext ==
    \/ \E repo \in Repos : \E ref \in TagRefs(repo) :
          TagCreated(repo, ref) /\ UNCHANGED hist
    \/ \E c \in Callers, repo \in Repos, xy \in Streams :
          NVCall(c, repo, xy) /\ UNCHANGED hist
    \/ \E c \in Callers : NVInitFetch(c) /\ UNCHANGED hist
    \/ \E c \in Callers : NVInitFail(c) /\ UNCHANGED hist
    \/ \E c \in Callers : NVAddRefs(c) /\ UNCHANGED hist
    \/ \E c \in Callers : NVRead(c) /\ UNCHANGED hist
    \/ \E repo \in Repos :
          HandleTagPush(Org, repo, "v3.8.1") /\ UNCHANGED hist

SpecTag == TagInitSpec /\ [][TagNext]_vars

Returned(c) == nvpc[c] = "idle" /\ nv[c].status \in {"ok", "error"}

\* C2: a NextVersion call that is the first for its repository after
\* InvalidateCache (the invalidation and the calls since ran one after the
\* other) has performed exactly one tag-listing fetch when it returns,
\* whether the repository was synced before the invalidation or not and
\* whether the fetch succeeds or fails.
C2_OneFetchAfterInvalidate ==
    \A c \in Callers :
        (Returned(c) /\ nv[c].first # "no") => nv[c].fetches = 1

\* a call returned a version for a repository that was synced before the
\* invalidation
C2_Witness ==
    \E c \in Callers :
        /\ Returned(c)
        /\ nv[c].status = "ok"
        /\ nv[c].first = "resync"
        /\ nv[c].result = "3.8.2"
        /\ nv[c].fetches = 1

\* C3: a tag push, for any repository, leaves no cache entry and no synced
\* flag of any repository or stream, and the first NextVersion call for each
\* repository after it lists the tags again before it reads the cache.
C3_TagPushClearsWholeCache ==
    /\ [][(\E repo \in Repos : HandleTagPush(Org, repo, "v3.8.1"))
            => (synced' = EmptyMap /\ tags' = EmptyMap)]_vars
    /\ [](\A c \in Callers :
            (nvpc[c] = "read" /\ nv[c].first # "no") => nv[c].fetches = 1)

\* both repositories were synced when a tag was pushed; since then one was
\* listed again and a call for the other has listed it again too
C3_Witness ==
    \E c \in Callers :
        /\ ghost.quiet
        /\ Cardinality(ghost.hadSynced) = 2
        /\ Cardinality(ghost.called) = 2
        /\ nvpc[c] = "read"
        /\ nv[c].first = "resync"
        /\ nv[c].fetches = 1

(***************************************************************************)
(* Insertion into one stream, one patch number at a time                   *)
(***************************************************************************)
YRepo == "quay"
YStreamXY == "3.8"

RECURSIVE SeqsUpTo(_, _)
SeqsUpTo(S, n) ==
    IF n = 0 THEN {<<>>}
    ELSE LET shorter == SeqsUpTo(S, n - 1)
         IN  shorter \cup {Append(q, x) : q \in shorter, x \in S}

YInit ==
    /\ TagInit
    /\ SyncInitIdle
    /\ JiraInitIdle
    /\ ySeq \in SeqsUpTo((-3)..MaxPatch, MaxInserts)
    /\ yPos = 0
    /\ yResult = [xy |-> "", version |-> "", removed |-> FALSE]

\* the tag ref of a patch number; -1 stands for a tag that is no release,
\* -2 for a release tag with a patch number that fits no int, -3 for the
\* release tag with the largest int as its patch number
YRef(z) ==
    IF z = -1 THEN "refs/tags/v" \o YStreamXY \o ".9-rc1"
    ELSE IF z = -2 THEN "refs/tags/v" \o YStreamXY \o ".99999999999999999999"
    ELSE IF z = -3 THEN "refs/tags/v" \o YStreamXY \o "." \o MaxIntDigits
    ELSE "refs/tags/v" \o YStreamXY \o "." \o ToString(z)

\* the caller of the insertion specification
YCaller == "c1"

\* the next patch number arrives as a tag ref in a listing of one tag and
\* goes through addRefs, which marks the repository synced; no NextVersion
\* call is running
YAdd ==
    /\ yPos < Len(ySeq)
    /\ nvpc[YCaller] = "idle"
    /\ nv[YCaller].status = "none"
    /\ yPos' = yPos + 1
    /\ tags' = addRefsTags(tags, Org, YRepo, <<YRef(ySeq[yPos + 1])>>)
    /\ synced' = addRefsSynced(synced, Org, YRepo)
    /\ yResult' = [yResult EXCEPT !.xy = "", !.version = ""]
    /\ UNCHANGED <<remoteTags, nvpc, nv, ghost, hist, ySeq, restOfY>>

\* the ints Remove is called with
YRemovable == {ToString(n) : n \in 0..MaxPatch} \cup {MaxIntDigits}

\* YStream.Remove(z) on the stream of the cache, once in a behaviour.  No
\* function of the program calls it; code of package taginformer can.  A
\* nil *YStream has no patchVersions to search: the stream is in the map.
\* No NextVersion call is running.
YRemove(z) ==
    LET k == key(Org, YRepo, YStreamXY)
    IN  /\ nvpc[YCaller] = "idle"
        /\ nv[YCaller].status = "none"
        /\ ~yResult.removed
        /\ k \in DOMAIN tags
        /\ tags' = MapPut(tags, k, YStreamRemove(tags[k], z))
        /\ yResult' = [xy |-> "", version |-> "", removed |-> TRUE]
        /\ UNCHANGED <<synced, remoteTags, nvpc, nv, ghost, hist, ySeq, yPos,
                       restOfY>>

\* NextVersion(org, repo, xy) is called
YNextVersion(xy) ==
    /\ nv[YCaller].status = "none"
    /\ NVCall(YCaller, YRepo, xy)
    /\ UNCHANGED hist

\* NextVersion has returned its version to the caller
YReturn ==
    /\ nvpc[YCaller] = "idle"
    /\ nv[YCaller].status = "ok"
    /\ yResult' = [yResult EXCEPT !.xy = nv[YCaller].xy,
                                   !.version = nv[YCaller].result]
    /\ nv' = [nv EXCEPT ![YCaller] = NoCall]
    /\ UNCHANGED <<synced, tags, remoteTags, nvpc, ghost, hist, ySeq, yPos,
                   restOfY>>

YNext ==
    \/ YAdd
    \/ \E z \in YRemovable : YRemove(z)
    \/ \E xy \in Streams : YNextVersion(xy)
    \/ NVInitFetch(YCaller) /\ UNCHANGED hist
    \/ NVAddRefs(YCaller) /\ UNCHANGED hist
    \/ NVRead(YCaller) /\ UNCHANGED hist
    \/ YReturn

SpecYStream == YInit /\ [][YNext]_vars

SetMax(S) == CHOOSE x \in S : \A y \in S : y <= x

YInserted == {ySeq[i] : i \in 1..yPos} \ {-1, -2}

\* the numeral of max + 1 for the patch numbers added so far
YMaxPlusOne ==
    IF -3 \in YInserted THEN "9223372036854775808"
    ELSE ToString(SetMax(YInserted) + 1)

\* what C1 expects of the last NextVersion call
YExpected ==
    yResult.xy \o "." \o
        (IF yResult.xy = YStreamXY /\ YInserted # {} THEN YMaxPlusOne ELSE "0")

\* C1: after any sequence of patch numbers was added to a stream, in any
\* order and with duplicates (and none was taken out of it), NextVersion
\* for that stream is "<stream>.<max+1>", and "<stream>.0" for a stream
\* nothing was added to.
C1_NextVersionIsMaxPlusOne ==
    (yResult.xy # "" /\ ~yResult.removed) => yResult.version = YExpected

\* the largest int was added as a patch number, then NextVersion was called
\* for the stream and has returned a negative patch number
C1_Witness ==
    /\ -3 \in YInserted
    /\ ~yResult.removed
    /\ yResult.xy = YStreamXY
    /\ yResult.version = YStreamXY \o "." \o MinIntDigits

\* for additions of patch numbers below the largest int the next version is
\* "<stream>.<max+1>"
NextVersionIsMaxPlusOneBelowMaxInt ==
    (yResult.xy # "" /\ ~yResult.removed /\ ~(-3 \in YInserted))
        => yResult.version = YExpected

\* NextVersion after Remove: the largest number that is left, plus one
NextVersionAfterRemove ==
    (yResult.xy = YStreamXY /\ yResult.removed)
        => LET y == MapGet(tags, key(Org, YRepo, YStreamXY), <<>>)
           IN  /\ \A i \in 1..(Len(y) - 1) : IntLess(y[i], y[i + 1])
               /\ yResult.version = YStreamXY \o "." \o
                      (IF y = <<>> THEN "0" ELSE IntPlusOne(y[Len(y)]))

(***************************************************************************)
(* Branch sync: reactor.sync, HandleBranchPush and the loop of main        *)
(***************************************************************************)
RemoteErr == "remote error"
NotFastForward == "Update is not a fast forward"

SyncInit ==
    /\ cfg \in Configs
    /\ heads = [k \in BranchKeys |-> "c1"]
    /\ status = <<>>
    /\ heap = <<>>
    /\ now = 1
    /\ pc = [p \in Procs |-> IF p = Periodic THEN "sleep" ELSE "idle"]
    /\ loc = [p \in Procs |-> NoLocals]

Sources(c) ==
    {String(PeriodicPairs(c)[i].from) : i \in 1..Len(PeriodicPairs(c))}

Destinations(c) ==
    {String(PeriodicPairs(c)[i].to) : i \in 1..Len(PeriodicPairs(c))}

\* the last sync of the pair stored Synced and the heads are still equal
InSyncBefore(to, from) ==
    /\ StatusOf(status, heap, String(to)).Status = "Synced"
    /\ heads[String(to)] = heads[String(from)]

\* reactor.sync line 177: the heads differ
SyncNeedsUpdateAlways(dstSHA, srcSHA) == TRUE

SyncNeedsUpdate(dstSHA, srcSHA) == dstSHA # srcSHA

\* reactor.sync line 182: the commit the destination is moved to
SyncUpdateSHAOld(srcSHA, dstSHA) == dstSHA

SyncUpdateSHA(srcSHA, dstSHA) == srcSHA

\* reactor.sync line 184: the force argument of UpdateRef
SyncForceOn == TRUE

SyncForce == FALSE

\* HandleBranchPush lines 207-209: a failed sync is added to errs
AppendErr(errs, err) == IF err # "" THEN Append(errs, err) ELSE errs

\* HandleBranchPush lines 205-210: the loop goes on after a failed sync
RestAfterStopOnError(queue, err) == IF err # "" THEN <<>> ELSE queue

RestAfter(queue, err) == queue

\* errors.NewAggregate: nil (no error) for an empty list
NewAggregate(errs) == errs

\* a developer pushes to a source branch
SourcePush(k) ==
    /\ k \in Sources(cfg)
    /\ heads[k] = "c1"
    /\ heads' = [heads EXCEPT ![k] = "c2"]
    /\ loc' = [q \in Procs |-> [loc[q] EXCEPT !.second = FALSE]]
    /\ UNCHANGED <<cfg, status, heap, now, pc, restOfSync>>

\* somebody commits to a destination branch directly
DestDiverge(k) ==
    /\ k \in Destinations(cfg)
    /\ heads[k] = "c1"
    /\ heads' = [heads EXCEPT ![k] = "x1"]
    /\ loc' = [q \in Procs |-> [loc[q] EXCEPT !.second = FALSE]]
    /\ UNCHANGED <<cfg, status, heap, now, pc, restOfSync>>

\* HandleBranchPush up to its loop
HandleBranchPush(w, org, repo, branch) ==
    /\ pc[w] = "idle"
    /\ LET syncTo == BranchesSyncedFrom(cfg, org, repo, branch)
           from == [Owner |-> org, Repo |-> repo, Branch |-> branch]
       IN  loc' = [loc EXCEPT ![w] =
                     [NoLocals EXCEPT
                        !.queue = [i \in 1..Len(syncTo) |->
                                     [to |-> syncTo[i], from |-> from]],
                        !.pushed = from]]
    /\ pc' = [pc EXCEPT ![w] = "next"]
    /\ UNCHANGED <<cfg, heads, status, heap, now, restOfSync>>

\* the loop of main starts a pass over the configured branches
PeriodicPass ==
    /\ pc[Periodic] = "sleep"
    /\ loc' = [loc EXCEPT ![Periodic] =
                 [NoLocals EXCEPT !.queue = PeriodicPairs(cfg)]]
    /\ pc' = [pc EXCEPT ![Periodic] = "next"]
    /\ UNCHANGED <<cfg, heads, status, heap, now, restOfSync>>

\* the errs of the caller after the sync that just returned
ErrsAfter(p) ==
    IF p = Periodic THEN <<>> ELSE AppendErr(loc[p].errs, loc[p].err)

\* the caller's loop calls sync for the next pair
SyncStart(p) ==
    /\ pc[p] = "next"
    /\ RestAfter(loc[p].queue, loc[p].err) # <<>>
    /\ LET pair == Head(loc[p].queue)
       IN  loc' = [loc EXCEPT ![p] =
                     [@ EXCEPT !.queue = Tail(loc[p].queue),
                               !.errs = ErrsAfter(p),
                               !.dest = pair.to, !.src = pair.from,
                               !.srcSHA = "", !.dstSHA = "", !.err = "",
                               !.wrote = NoStatus, !.log = <<>>,
                               !.second = InSyncBefore(pair.to, pair.from)]]
    /\ pc' = [pc EXCEPT ![p] = "getSrc"]
    /\ UNCHANGED <<cfg, heads, status, heap, now, restOfSync>>

\* the caller's loop is over: HandleBranchPush returns, main sleeps
HandlerReturn(p) ==
    /\ pc[p] = "next"
    /\ RestAfter(loc[p].queue, loc[p].err) = <<>>
    /\ loc' = [loc EXCEPT ![p] =
                 IF p = Periodic THEN NoLocals
                 ELSE [@ EXCEPT !.queue = <<>>, !.errs = ErrsAfter(p),
                                !.ret = NewAggregate(ErrsAfter(p)),
                                !.done = TRUE]]
    /\ pc' = [pc EXCEPT ![p] = IF p = Periodic THEN "sleep" ELSE "done"]
    /\ UNCHANGED <<cfg, heads, status, heap, now, restOfSync>>

\* the dispatcher has the handler's result
EventDone(w) ==
    /\ pc[w] = "done"
    /\ loc' = [loc EXCEPT ![w] = NoLocals]
    /\ pc' = [pc EXCEPT ![w] = "idle"]
    /\ UNCHANGED <<cfg, heads, status, heap, now, restOfSync>>

Called(p, op, ref, sha, force) ==
    Append(loc[p].log, [op |-> op, ref |-> ref, sha |-> sha, force |-> force])

Outcome(p, err) ==
    IF p = Periodic THEN <<>>
    ELSE Append(loc[p].outcomes, [dest |-> String(loc[p].dest), err |-> err])

\* sync: GetRef of the source answers
GetSrcOk(p) ==
    /\ pc[p] = "getSrc"
    /\ loc' = [loc EXCEPT ![p].srcSHA = heads[String(loc[p].src)],
                          ![p].log = Called(p, "GetRef", String(loc[p].src),
                                            "", FALSE)]
    /\ pc' = [pc EXCEPT ![p] = "getDst"]
    /\ UNCHANGED <<cfg, heads, status, heap, now, restOfSync>>

\* sync: GetRef of the source fails
GetSrcFail(p) ==
    /\ pc[p] = "getSrc"
    /\ loc' = [loc EXCEPT ![p].err = "failed to get source ref: " \o RemoteErr,
                          ![p].log = Called(p, "GetRef", String(loc[p].src),
                                            "", FALSE)]
    /\ pc' = [pc EXCEPT ![p] = "statusErr"]
    /\ UNCHANGED <<cfg, heads, status, heap, now, restOfSync>>

\* sync: GetRef of the destination answers, the heads are compared
GetDstOk(p) ==
    /\ pc[p] = "getDst"
    /\ loc' = [loc EXCEPT ![p].dstSHA = heads[String(loc[p].dest)],
                          ![p].log = Called(p, "GetRef", String(loc[p].dest),
                                            "", FALSE)]
    /\ pc' = [pc EXCEPT ![p] =
                IF SyncNeedsUpdate(heads[String(loc[p].dest)], loc[p].srcSHA)
                THEN "update" ELSE "statusOk"]
    /\ UNCHANGED <<cfg, heads, status, heap, now, restOfSync>>

\* sync without the return after a failed GetRef of the destination
GetDstFailGoesOn(p) ==
    /\ pc[p] = "getDst"
    /\ loc' = [loc EXCEPT ![p].log = Called(p, "GetRef", String(loc[p].dest),
                                            "", FALSE)]
    /\ pc' = [pc EXCEPT ![p] = "update"]
    /\ UNCHANGED <<cfg, heads, status, heap, now, restOfSync>>

\* sync: GetRef of the destination fails
GetDstFail(p) ==
    /\ pc[p] = "getDst"
    /\ loc' = [loc EXCEPT ![p].err =
                              "failed to get destination ref: " \o RemoteErr,
                          ![p].log = Called(p, "GetRef", String(loc[p].dest),
                                            "", FALSE)]
    /\ pc' = [pc EXCEPT ![p] = "statusErr"]
    /\ UNCHANGED <<cfg, heads, status, heap, now, restOfSync>>

\* sync: UpdateRef, which the hosting service accepts or rejects
UpdateRef(p) ==
    /\ pc[p] = "update"
    /\ LET dk == String(loc[p].dest)
           sha == SyncUpdateSHA(loc[p].srcSHA, loc[p].dstSHA)
           log == Called(p, "UpdateRef", dk, sha, SyncForce)
       IN  IF UpdateRefAccepted(heads, dk, sha, SyncForce)
           THEN /\ heads' = [heads EXCEPT ![dk] = sha]
                /\ loc' = [q \in Procs |->
                             IF q = p THEN [loc[q] EXCEPT !.log = log]
                             ELSE [loc[q] EXCEPT !.second = FALSE]]
                /\ pc' = [pc EXCEPT ![p] = "statusOk"]
           ELSE /\ loc' = [loc EXCEPT
                             ![p].log = log,
                             ![p].err = "failed to update " \o dk \o ": "
                                            \o NotFastForward]
                /\ pc' = [pc EXCEPT ![p] = "statusErr"]
                /\ UNCHANGED heads
    /\ UNCHANGED <<cfg, status, heap, now, restOfSync>>

\* sync: UpdateRef fails without reaching the branch
UpdateRefFail(p) ==
    /\ pc[p] = "update"
    /\ LET dk == String(loc[p].dest)
           sha == SyncUpdateSHA(loc[p].srcSHA, loc[p].dstSHA)
       IN  loc' = [loc EXCEPT
                     ![p].log = Called(p, "UpdateRef", dk, sha, SyncForce),
                     ![p].err = "failed to update " \o dk \o ": " \o RemoteErr]
    /\ pc' = [pc EXCEPT ![p] = "statusErr"]
    /\ UNCHANGED <<cfg, heads, status, heap, now, restOfSync>>

\* sync: the Error status is stored and the error returned
StatusErr(p) ==
    /\ pc[p] = "statusErr"
    /\ LET dk == String(loc[p].dest)
           u == UpdateBranchSyncStatus(status, heap, dk, "Error",
                                       loc[p].err, now)
       IN  /\ status' = u.status
           /\ heap' = u.heap
           /\ loc' = [loc EXCEPT
                        ![p].wrote = StatusOf(u.status, u.heap, dk),
                        ![p].outcomes = Outcome(p, loc[p].err)]
    /\ pc' = [pc EXCEPT ![p] = "next"]
    /\ UNCHANGED <<cfg, heads, now, restOfSync>>

\* sync: the Synced status is stored and nil returned
StatusOk(p) ==
    /\ pc[p] = "statusOk"
    /\ LET dk == String(loc[p].dest)
           u == UpdateBranchSyncStatus(status, heap, dk, "Synced",
                    "synched from " \o String(loc[p].src) \o ", commit: "
                        \o loc[p].srcSHA, now)
       IN  /\ status' = u.status
           /\ heap' = u.heap
           /\ loc' = [loc EXCEPT
                        ![p].wrote = StatusOf(u.status, u.heap, dk),
                        ![p].outcomes = Outcome(p, "")]
    /\ pc' = [pc EXCEPT ![p] = "next"]
    /\ UNCHANGED <<cfg, heads, now, restOfSync>>

PushedBranches == {"master", "release"}

SyncNext ==
    \/ \E k \in BranchKeys : SourcePush(k)
    \/ \E k \in BranchKeys : DestDiverge(k)
    \/ \E w \in Workers, branch \in PushedBranches :
           HandleBranchPush(w, "quay", "quay", branch)
    \/ \E p \in Workers : SyncStart(p)
    \/ \E p \in Workers : HandlerReturn(p)
    \/ \E w \in Workers : EventDone(w)
    \/ \E p \in Workers : GetSrcOk(p)
    \/ \E p \in Workers : GetSrcFail(p)
    \/ \E p \in Workers : GetDstOk(p)
    \/ \E p \in Workers : GetDstFail(p)
    \/ \E p \in Workers : UpdateRef(p)
    \/ \E p \in Workers : UpdateRefFail(p)
    \/ \E p \in Workers : StatusErr(p)
    \/ \E p \in Workers : StatusOk(p)

SyncInitSpec == SyncInit /\ TagInit /\ YInitIdle /\ JiraInitIdle

SpecSync == SyncInitSpec /\ [][SyncNext]_vars

(***************************************************************************)
(* Properties of the branch sync                                           *)
(***************************************************************************)
\* a sync call of w has returned to the loop of the handler
SyncReturned(w) == pc[w] = "next" /\ loc[w].dest # NoRef

\* both GetRef calls of the sync were answered
ReadsAnswered(w) == loc[w].srcSHA # "" /\ loc[w].dstSHA # ""

UpdateRefCalls(log) == SelectSeq(log, LAMBDA e : e.op = "UpdateRef")

SyncedMessage(w) ==
    "synched from " \o String(loc[w].src) \o ", commit: " \o loc[w].srcSHA

\* C4: Sync is idempotent.  A sync that meets none of the failures (a read
\* that fails, an update that fails or is rejected) stores a Synced status
\* naming the source commit; and when the previous sync of the pair stored
\* Synced and no branch has moved since, a sync whose reads are answered
\* stores Synced again and calls the hosting service with GetRef only.
C4_SyncIdempotent ==
    \A w \in Workers :
        SyncReturned(w) =>
            /\ loc[w].err = "" =>
                   /\ loc[w].wrote.Status = "Synced"
                   /\ loc[w].wrote.Message = SyncedMessage(w)
            /\ (loc[w].second /\ ReadsAnswered(w)) =>
                   /\ loc[w].err = ""
                   /\ loc[w].wrote.Status = "Synced"
                   /\ UpdateRefCalls(loc[w].log) = <<>>
                   /\ Len(loc[w].log) = 2

C4_Witness ==
    \E w \in Workers :
        /\ SyncReturned(w)
        /\ loc[w].second
        /\ loc[w].srcSHA = "c2"
        /\ loc[w].dstSHA = "c2"
        /\ loc[w].wrote.Status = "Synced"
        /\ Len(loc[w].log) = 2

\* the UpdateRef call of the sync that returned was not a fast-forward
Rejected(w) ==
    /\ SyncReturned(w)
    /\ loc[w].log # <<>>
    /\ LET e == loc[w].log[Len(loc[w].log)]
       IN  e.op = "UpdateRef" /\ ~FastForward(heads[e.ref], e.sha)

\* C5: when moving the destination to the source commit is not a
\* fast-forward, the UpdateRef step leaves every branch as it was and the
\* sync goes on to store an Error status and to return the error; every
\* UpdateRef is requested with force = false.
C5_NonFastForwardFails ==
    /\ [][\A w \in Workers :
            (/\ pc[w] = "update"
             /\ pc'[w] # "update"
             /\ ~FastForward(heads[String(loc[w].dest)], loc[w].srcSHA))
            => (heads' = heads /\ pc'[w] = "statusErr" /\ loc'[w].err # "")]_vars
    /\ [](\A w \in Workers :
            /\ \A i \in 1..Len(loc[w].log) :
                   loc[w].log[i].op = "UpdateRef" => ~loc[w].log[i].force
            /\ Rejected(w) =>
                   /\ loc[w].err # ""
                   /\ loc[w].wrote.Status = "Error"
                   /\ loc[w].wrote.Message = loc[w].err
                   /\ StatusOf(status, heap, String(loc[w].dest)).Status
                          = "Error")

C5_Witness ==
    \E w \in Workers :
        /\ Rejected(w)
        /\ heads[String(loc[w].dest)] = "x1"
        /\ loc[w].srcSHA = "c2"
        /\ loc[w].wrote.Status = "Error"
        /\ loc[w].err = "failed to update quay/quay:release: "
                            \o NotFastForward

\* the destinations configured for the branch of the event w handles
PushedTo(w) ==
    BranchesSyncedFrom(cfg, loc[w].pushed.Owner, loc[w].pushed.Repo,
                       loc[w].pushed.Branch)

\* C6: a branch push on a source with exactly one destination, whose head
\* as read differs from the source head as read, makes exactly one
\* UpdateRef call, for that destination with the source's commit; when the
\* hosting service carries it out the destination is at that commit, the
\* status stored is Synced and the handler returns no error.
C6_PushSyncsOneDestination ==
    \A w \in Workers :
        (/\ pc[w] = "done"
         /\ Len(PushedTo(w)) = 1
         /\ ReadsAnswered(w)
         /\ loc[w].srcSHA # loc[w].dstSHA)
        => /\ UpdateRefCalls(loc[w].log) =
                  <<[op |-> "UpdateRef", ref |-> String(PushedTo(w)[1]),
                     sha |-> loc[w].srcSHA, force |-> FALSE]>>
           /\ loc[w].err = "" =>
                  /\ heads[String(PushedTo(w)[1])] = loc[w].srcSHA
                  /\ loc[w].wrote.Status = "Synced"
                  /\ loc[w].wrote.Message = SyncedMessage(w)
                  /\ loc[w].ret = <<>>

C6_Witness ==
    \E w \in Workers :
        /\ pc[w] = "done"
        /\ Len(PushedTo(w)) = 1
        /\ loc[w].srcSHA = "c2"
        /\ loc[w].dstSHA = "c1"
        /\ Len(UpdateRefCalls(loc[w].log)) = 1
        /\ heads["quay/quay:release"] = "c2"
        /\ loc[w].wrote.Status = "Synced"
        /\ loc[w].ret = <<>>

\* the errors of the syncs that failed, in the order of the calls
RECURSIVE FailuresOf(_)
FailuresOf(outcomes) ==
    IF outcomes = <<>> THEN <<>>
    ELSE IF Head(outcomes).err # ""
         THEN <<Head(outcomes).err>> \o FailuresOf(Tail(outcomes))
         ELSE FailuresOf(Tail(outcomes))

\* C10: when the branch-push handler returns, a sync has been attempted for
\* every destination configured for the pushed branch, in their order, also
\* after a failed one; it returns an error exactly if one of them failed,
\* and the error it returns holds the error of every failed sync.
C10_FanOutAggregates ==
    \A w \in Workers :
        pc[w] = "done" =>
            /\ Len(loc[w].outcomes) = Len(PushedTo(w))
            /\ \A i \in 1..Len(PushedTo(w)) :
                   loc[w].outcomes[i].dest = String(PushedTo(w)[i])
            /\ (loc[w].ret # <<>>) <=>
                   (\E i \in 1..Len(loc[w].outcomes) :
                        loc[w].outcomes[i].err # "")
            /\ loc[w].ret = FailuresOf(loc[w].outcomes)

C10_Witness ==
    \E w \in Workers :
        /\ pc[w] = "done"
        /\ Len(PushedTo(w)) = 2
        /\ Len(loc[w].outcomes) = 2
        /\ loc[w].outcomes[1].err # ""
        /\ loc[w].outcomes[2].err = ""
        /\ Len(loc[w].ret) = 1

(***************************************************************************)
(* checks.Jira.Run and the handlers that call it                           *)
(***************************************************************************)
Titles ==
    {"Fix bug (PROJQUAY-123)", "Fix bug", "Fix (PROJQUAY-123) bug",
     "Fix bug (OTHER-1)", "Fix bug (PROJQUAYX-7)"}

PRs ==
    {[Number |-> 7, Title |-> t, Merged |-> m, Base |-> b, HeadSHA |-> "h1"] :
        t \in Titles, m \in BOOLEAN, b \in {"master", "release"}}

Bodies ==
    {"/recheck", "/RECHECK", "/recheck  ", "/recheck\n", " /recheck",
     "recheck", "/recheck now", "x/recheck", "/retest",
     "LGTM\n/Recheck\t\nthanks", "/rechec" \o KelvinSign \o " "}

TrackerStates ==
    {NoTracker} \cup
    {[exists |-> TRUE, Status |-> s, FixVersions |-> f, Comments |-> <<>>,
      Transitions |-> Transitions] :
        s \in {"To Do", "In Progress"}, f \in {<<>>, <<"quay-v3.8.2">>}}

\* comments the pull request has before the event
OldComments ==
    <<[ID |-> 1, User |-> BotLogin, CreatedAt |-> 1,
       Body |-> "boom\n" \o internalErrorMarker \o "\n"],
      [ID |-> 2, User |-> "alice", CreatedAt |-> 2, Body |-> "LGTM"]>>

JiraInit ==
    /\ cfg \in {CfgJira(j) : j \in JiraConfigs}
    /\ SyncIdle
    /\ YInitIdle
    /\ synced = EmptyMap
    /\ tags = EmptyMap
    /\ remoteTags = [r \in {repoKey(Org, repo) : repo \in Repos} |->
                        IF r = "quay/quay" THEN <<"refs/tags/v3.8.1">>
                        ELSE <<>>]
    /\ nvpc = [c \in Callers |-> "idle"]
    /\ nv = [c \in Callers |-> NoCall]
    /\ ghost = NoGhost
    /\ hist = NoHistory
    /\ jpc = "idle"
    /\ jl = NoJl
    /\ gh \in {[comments |-> c, checkRuns |-> <<>>, time |-> 3] :
                  c \in {<<>>, OldComments}}
    /\ jira \in TrackerStates
    /\ jlog = <<>>
    /\ cachedGithubUserLogin = ""
    /\ RestIdle

\* the handler returns err, wrapped where the handler wraps it
Ret(l, err) ==
    [pc |-> "done",
     l |-> [l EXCEPT !.ret = IF l.wrap /\ err # ""
                             THEN "failed to run jira check: " \o err
                             ELSE err]]

Logged(op, arg) == Append(jlog, [op |-> op, arg |-> arg, rule |-> jl.rule])

\* Run up to its first call of a service
RunEnter(l0, event, jiraConfig, branchConfig, pr) ==
    LET l == [l0 EXCEPT !.event = event, !.jiraConfig = jiraConfig,
                        !.branchConfig = branchConfig, !.pr = pr]
        matches == titleJiraRegex(pr.Title)
        k == IF matches # <<>> THEN matches[2] ELSE ""
    IN  IF jiraConfig.Key = "" THEN Ret(l, "")
        ELSE IF TitleSkipped(k, jiraConfig.Key)
        THEN [pc |-> "createCheckRun",
              l |-> [l EXCEPT !.key = k, !.after = "return",
                              !.report = SkipReport(k, jiraConfig.Key)]]
        ELSE [pc |-> "issueGet", l |-> [l EXCEPT !.key = k]]

\* where Run goes on when reportTitleResult or reportInternalError is over
AfterReport(l, cleanupErr) ==
    CASE l.after = "return" -> Ret(l, l.checkErr)
      [] l.after = "rules" ->
            IF l.checkErr # "" THEN Ret(l, l.checkErr)
            ELSE [pc |-> "nextVersion", l |-> l]
      [] l.after = "internal" -> Ret(l, cleanupErr)

\* deleteOldComments after its listing: the loop, or the return
AfterList(l) ==
    IF l.todo = <<>> THEN AfterReport(l, "")
    ELSE [pc |-> "deleteLoop", l |-> l]

\* Run after applyRule: its error is logged only
AfterApply(l) ==
    LET n == Len(l.jiraConfig.Rules)
    IN  IF NextAfterApply(l.rule, n) > n THEN Ret(l, "")
        ELSE [pc |-> "rules", l |-> [l EXCEPT !.next = NextAfterApply(l.rule, n)]]

\* HandlePullRequestCreate, -Edit, -Close, -Synchronize
HandlePullRequest(event, pr) ==
    /\ jpc = "idle"
    /\ LET n == RunEnter([NoJl EXCEPT !.source = "pull_request"], event,
                         ConfigurationJira(cfg, "quay", "quay"),
                         ConfigurationBranch(cfg, "quay", "quay", pr.Base), pr)
       IN  jpc' = n.pc /\ jl' = n.l
    /\ UNCHANGED <<synced, tags, gh, jira, jlog, cachedGithubUserLogin,
                   restOfJira>>

\* HandleIssueCommentCreate without the test of the state of the issue
HandleIssueCommentCreateAnyState(state, isPR, body) ==
    /\ jpc = "idle"
    /\ LET l == [NoJl EXCEPT !.source = "issue_comment", !.state = state,
                             !.isPR = isPR, !.body = body]
       IN  IF ~isPR THEN jpc' = "done" /\ jl' = l
           ELSE IF recheckRegex(body) THEN jpc' = "prGet" /\ jl' = l
           ELSE jpc' = "done" /\ jl' = l
    /\ UNCHANGED <<synced, tags, gh, jira, jlog, cachedGithubUserLogin,
                   restOfJira>>

HandleIssueCommentCreate(state, isPR, body) ==
    /\ jpc = "idle"
    /\ LET l == [NoJl EXCEPT !.source = "issue_comment", !.state = state,
                             !.isPR = isPR, !.body = body]
       IN  IF state # "open" THEN jpc' = "done" /\ jl' = l
           ELSE IF ~isPR THEN jpc' = "done" /\ jl' = l
           ELSE IF recheckRegex(body) THEN jpc' = "prGet" /\ jl' = l
           ELSE jpc' = "done" /\ jl' = l
    /\ UNCHANGED <<synced, tags, gh, jira, jlog, cachedGithubUserLogin,
                   restOfJira>>

\* HandleIssueCommentCreate: PullRequests.Get, then Run (the handler is past
\* its use of the comment)
PullRequestsGet(ok, pr) ==
    /\ jpc = "prGet"
    /\ jlog' = Logged("PullRequests.Get", [number |-> pr.Number])
    /\ LET n == IF ok
                THEN RunEnter([jl EXCEPT !.wrap = TRUE, !.body = ""],
                              "recheck",
                              ConfigurationJira(cfg, "quay", "quay"),
                              ConfigurationBranch(cfg, "quay", "quay",
                                                  pr.Base), pr)
                ELSE Ret([jl EXCEPT !.body = ""],
                         "failed to get pull request: " \o RemoteErr)
       IN  jpc' = n.pc /\ jl' = n.l
    /\ UNCHANGED <<synced, tags, gh, jira, cachedGithubUserLogin, restOfJira>>

\* Run: Issue.Get and what Run makes of its answer (report.summary holds
\* the message of an internal error)
IssueGet(outcome) ==
    /\ jpc = "issueGet"
    /\ outcome = "ok" => jira.exists
    /\ outcome = "404" => ~jira.exists
    /\ jlog' = Logged("Issue.Get", [key |-> jl.key])
    /\ CASE outcome = "ok" ->
              /\ jl' = [jl EXCEPT !.resp = outcome, !.issue = [Key |-> jl.key,
                                            Status |-> jira.Status,
                                            FixVersions |-> jira.FixVersions],
                                  !.report = ValidReport, !.after = "rules"]
              /\ jpc' = "createCheckRun"
         [] outcome = "404" ->
              /\ jl' = [jl EXCEPT !.resp = outcome,
                                  !.report = MissingReport(jl.key),
                                  !.after = "return"]
              /\ jpc' = "createCheckRun"
         [] outcome = "unreachable" ->
              /\ jl' = [jl EXCEPT !.resp = outcome,
                                  !.report.summary = Unreachable,
                                  !.after = "internal"]
              /\ jpc' = "queuedCheckRun"
         [] outcome = "500" ->
              /\ jl' = [jl EXCEPT !.resp = outcome,
                                  !.report.summary = RequestFailed("500"),
                                  !.after = "internal"]
              /\ jpc' = "queuedCheckRun"
    /\ UNCHANGED <<synced, tags, gh, jira, cachedGithubUserLogin, restOfJira>>

\* reportTitleResult: Checks.CreateCheckRun
CreateCheckRun(ok) ==
    /\ jpc = "createCheckRun"
    /\ jlog' = Logged("CreateCheckRun",
                      [status |-> "completed", headSHA |-> jl.pr.HeadSHA,
                       conclusion |-> jl.report.conclusion,
                       title |-> jl.report.title,
                       summary |-> jl.report.summary])
    /\ IF ok
       THEN /\ gh' = [gh EXCEPT !.checkRuns =
                                   Append(@, [status |-> "completed",
                                              conclusion |-> jl.report.conclusion,
                                              CompletedAt |-> gh.time]),
                                !.time = @ + 1]
            /\ jl' = [jl EXCEPT !.checkErr = "", !.createdBefore = gh.time]
       ELSE /\ gh' = gh
            /\ jl' = [jl EXCEPT !.checkErr = RemoteErr,
                                !.createdBefore = ZeroTime]
    /\ jpc' = "userLogin"
    /\ UNCHANGED <<synced, tags, jira, cachedGithubUserLogin, restOfJira>>

\* reportInternalError: Checks.CreateCheckRun, its result is dropped
QueuedCheckRun(ok) ==
    /\ jpc = "queuedCheckRun"
    /\ jlog' = Logged("CreateCheckRun",
                      [status |-> "queued", headSHA |-> jl.pr.HeadSHA,
                       conclusion |-> "", title |-> "", summary |-> ""])
    /\ gh' = IF ok
             THEN [gh EXCEPT !.checkRuns =
                                Append(@, [status |-> "queued",
                                           conclusion |-> "",
                                           CompletedAt |-> ZeroTime]),
                             !.time = @ + 1]
             ELSE gh
    /\ jpc' = "createComment"
    /\ UNCHANGED <<synced, tags, jl, jira, cachedGithubUserLogin, restOfJira>>

\* reportInternalError: Issues.CreateComment
CreateComment(ok) ==
    /\ jpc = "createComment"
    /\ jlog' = Logged("CreateComment",
                      [body |-> jl.report.summary \o "\n"
                                    \o internalErrorMarker \o "\n"])
    /\ IF ok
       THEN /\ gh' = [gh EXCEPT !.comments =
                                   Append(@, [ID |-> gh.time, User |-> BotLogin,
                                              CreatedAt |-> gh.time,
                                              Body |-> jl.report.summary \o "\n"
                                                  \o internalErrorMarker
                                                  \o "\n"]),
                                !.time = @ + 1]
            /\ cachedGithubUserLogin' = BotLogin
            /\ jl' = [jl EXCEPT !.createdBefore = gh.time]
            /\ jpc' = "userLogin"
       ELSE /\ jpc' = Ret(jl, RemoteErr).pc
            /\ jl' = Ret(jl, RemoteErr).l
            /\ UNCHANGED <<gh, cachedGithubUserLogin>>
    /\ UNCHANGED <<synced, tags, jira, restOfJira>>

\* The field cachedGithubUserLogin is read and written with no lock by
\* every Run, each in the goroutine of its delivery.  A string is a pointer
\* and a length, stored one after the other: while another goroutine is
\* between the two stores of its first write the field holds MidWrite, and
\* a read gives "" (length still 0) or TornLogin (the new length, the
\* pointer still nil).
MidWrite == "<being written>"
TornLogin == "<nil pointer, length 16>"

\* another Run starts to write the login of the app into the empty field
\* (line 99 or line 158)
OtherRunStores ==
    /\ cachedGithubUserLogin = ""
    /\ cachedGithubUserLogin' = MidWrite
    /\ UNCHANGED <<synced, tags, jpc, jl, gh, jira, jlog, restOfJira>>

\* the write of the other Run is complete
OtherRunStored ==
    /\ cachedGithubUserLogin = MidWrite
    /\ cachedGithubUserLogin' = BotLogin
    /\ UNCHANGED <<synced, tags, jpc, jl, gh, jira, jlog, restOfJira>>

\* deleteOldComments: githubUserLogin, the test of line 94 and, when the
\* field is not empty, the read of line 101
GithubUserLogin(read) ==
    /\ jpc = "userLogin"
    /\ read \in (IF cachedGithubUserLogin = MidWrite THEN {"", TornLogin}
                 ELSE {cachedGithubUserLogin})
    /\ IF read = ""
       THEN jpc' = "appsGet" /\ jl' = jl
       ELSE jpc' = "listComments" /\ jl' = [jl EXCEPT !.userLogin = read]
    /\ UNCHANGED <<synced, tags, gh, jira, jlog, cachedGithubUserLogin,
                   restOfJira>>

\* githubUserLogin lines 95-101: Apps.Get, the write of the field and the
\* read of what was written
AppsGet(ok) ==
    /\ jpc = "appsGet"
    /\ jlog' = Logged("Apps.Get", [slug |-> ""])
    /\ IF ok
       THEN /\ cachedGithubUserLogin' = "quay-ci-app" \o "[bot]"
            /\ jpc' = "listComments"
            /\ jl' = [jl EXCEPT !.userLogin = "quay-ci-app" \o "[bot]"]
       ELSE LET n == AfterReport(jl, "failed to get current app: "
                                         \o RemoteErr)
            IN  /\ jpc' = n.pc
                /\ jl' = n.l
                /\ UNCHANGED cachedGithubUserLogin
    /\ UNCHANGED <<synced, tags, gh, jira, restOfJira>>

\* a test that also takes the comments created at createdBefore
ToDeleteUpTo(comm, userLogin, createdBefore, marker) ==
    /\ comm.User = userLogin
    /\ comm.CreatedAt <= createdBefore
    /\ Contains(comm.Body, marker)

\* deleteOldComments line 135
ToDelete(comm, userLogin, createdBefore, marker) ==
    /\ comm.User = userLogin
    /\ comm.CreatedAt < createdBefore
    /\ Contains(comm.Body, marker)

\* the comparison of line 135 reads through the nil pointer of a torn
\* login when the lengths are equal
Panics(comments, userLogin) ==
    /\ userLogin = TornLogin
    /\ \E i \in 1..Len(comments) : Len(comments[i].User) = Len(BotLogin)

\* deleteOldComments: Issues.ListComments
ListComments(ok) ==
    /\ jpc = "listComments"
    /\ jlog' = Logged("ListComments", [number |-> jl.pr.Number])
    /\ LET n == IF ok /\ Panics(gh.comments, jl.userLogin)
                THEN [pc |-> "panic", l |-> jl]
                ELSE IF ok
                THEN AfterList([jl EXCEPT !.todo =
                        SelectSeq(gh.comments,
                                  LAMBDA comm :
                                      ToDelete(comm, jl.userLogin,
                                               jl.createdBefore,
                                               internalErrorMarker))])
                ELSE AfterReport(jl, "failed to list comments on pull request quay/quay#"
                                         \o ToString(jl.pr.Number) \o ": "
                                         \o RemoteErr)
       IN  jpc' = n.pc /\ jl' = n.l
    /\ UNCHANGED <<synced, tags, gh, jira, cachedGithubUserLogin, restOfJira>>

\* deleteOldComments: Issues.DeleteComment, a failure is logged only
DeleteComment(ok) ==
    /\ jpc = "deleteLoop"
    /\ jl.todo # <<>>
    /\ jlog' = Logged("DeleteComment", [id |-> Head(jl.todo).ID])
    /\ gh' = IF ok
             THEN [gh EXCEPT !.comments =
                      SelectSeq(@, LAMBDA comm : comm.ID # Head(jl.todo).ID)]
             ELSE gh
    /\ LET n == AfterList([jl EXCEPT !.todo = Tail(jl.todo)])
       IN  jpc' = n.pc /\ jl' = n.l
    /\ UNCHANGED <<synced, tags, jira, cachedGithubUserLogin, restOfJira>>

\* the caller of NextVersion that is Run
RunCaller == "c1"

\* Run line 308: TagInformer.NextVersion is called for the version of the
\* branch; its steps are NVInitFetch, NVInitFail, NVAddRefs and NVRead
NextVersionCall ==
    /\ jpc = "nextVersion"
    /\ jl.branchConfig.Version # ""
    /\ nv[RunCaller].status = "none"
    /\ NVCall(RunCaller, "quay", jl.branchConfig.Version)
    /\ UNCHANGED hist

\* Run lines 306-313: the fix version, once NextVersion has returned
NextVersionStep ==
    /\ jpc = "nextVersion"
    /\ IF jl.branchConfig.Version = ""
       THEN /\ jl' = [jl EXCEPT !.fixVersion = "", !.next = 1]
            /\ jpc' = "rules"
            /\ nv' = nv
       ELSE /\ nvpc[RunCaller] = "idle"
            /\ nv[RunCaller].status \in {"ok", "error"}
            /\ nv' = [nv EXCEPT ![RunCaller] = NoCall]
            /\ IF nv[RunCaller].status = "error"
               THEN LET n == Ret(jl, "failed to get next version for quay/quay:"
                                        \o jl.branchConfig.Name
                                        \o ": failed to list tags: "
                                        \o RemoteErr)
                    IN  jpc' = n.pc /\ jl' = n.l
               ELSE /\ jl' = [jl EXCEPT
                                !.fixVersion = jl.jiraConfig.FixVersionPrefix
                                                   \o nv[RunCaller].result,
                                !.next = 1]
                    /\ jpc' = "rules"
    /\ UNCHANGED <<synced, tags, gh, jira, jlog, cachedGithubUserLogin, cfg,
                   remoteTags, nvpc, ghost, hist, yVars, heads, status, heap,
                   now, pc, loc, eh, snap, mc, cs, mu>>

\* TagInformer.NextVersion between its call by Run and its return
NextVersionRuns ==
    \/ NextVersionCall
    \/ NVInitFetch(RunCaller) /\ UNCHANGED hist
    \/ NVInitFail(RunCaller) /\ UNCHANGED hist
    \/ NVAddRefs(RunCaller) /\ UNCHANGED hist
    \/ NVRead(RunCaller) /\ UNCHANGED hist

\* the delivery of a tag push is handled by another goroutine
TagPushed == HandleTagPush(Org, "quay", "v3.8.2") /\ UNCHANGED hist

\* Run lines 315-316: the loop up to the first rule that matches
MatchRules ==
    /\ jpc = "rules"
    /\ LET rules == jl.jiraConfig.Rules
           i == FirstMatchFrom(rules, jl.next, jl.event, jl.issue, jl.pr,
                               jl.fixVersion)
           last == IF i = 0 THEN Len(rules) ELSE i
           l == [jl EXCEPT !.evaluated =
                    @ \o [k \in 1..(last - jl.next + 1) |-> jl.next + k - 1]]
           n == IF i = 0 THEN Ret(l, "")
                ELSE [pc |-> "setFixVersion", l |-> [l EXCEPT !.rule = i]]
       IN  jpc' = n.pc /\ jl' = n.l
    /\ UNCHANGED <<synced, tags, gh, jira, jlog, cachedGithubUserLogin,
                   restOfJira>>

\* setFixVersion without the loop over the fix versions of the issue
SetFixVersionAgain(ok) ==
    /\ jpc = "setFixVersion"
    /\ LET rule == jl.jiraConfig.Rules[jl.rule]
       IN  IF rule.SetFixVersion /\ jl.fixVersion # ""
           THEN /\ jlog' = Logged("UpdateIssue",
                                  [key |-> jl.issue.Key,
                                   add |-> jl.fixVersion])
                /\ IF ok
                   THEN /\ jira' = [jira EXCEPT !.FixVersions =
                                       IF contains(@, jl.fixVersion) THEN @
                                       ELSE Append(@, jl.fixVersion)]
                        /\ jpc' = "addComment"
                        /\ jl' = jl
                   ELSE /\ jpc' = AfterApply(jl).pc
                        /\ jl' = AfterApply(jl).l
                        /\ jira' = jira
           ELSE /\ jpc' = "addComment"
                /\ UNCHANGED <<jl, jira, jlog>>
    /\ UNCHANGED <<synced, tags, gh, cachedGithubUserLogin, restOfJira>>

\* applyRule lines 214-219 and setFixVersion
SetFixVersion(ok) ==
    /\ jpc = "setFixVersion"
    /\ LET rule == jl.jiraConfig.Rules[jl.rule]
       IN  IF /\ rule.SetFixVersion
              /\ jl.fixVersion # ""
              /\ ~contains(jl.issue.FixVersions, jl.fixVersion)
           THEN /\ jlog' = Logged("UpdateIssue",
                                  [key |-> jl.issue.Key,
                                   add |-> jl.fixVersion])
                /\ IF ok
                   THEN /\ jira' = [jira EXCEPT !.FixVersions =
                                       IF contains(@, jl.fixVersion) THEN @
                                       ELSE Append(@, jl.fixVersion)]
                        /\ jpc' = "addComment"
                        /\ jl' = jl
                   ELSE /\ jpc' = AfterApply(jl).pc
                        /\ jl' = AfterApply(jl).l
                        /\ jira' = jira
           ELSE /\ jpc' = "addComment"
                /\ UNCHANGED <<jl, jira, jlog>>
    /\ UNCHANGED <<synced, tags, gh, cachedGithubUserLogin, restOfJira>>

\* applyRule lines 221-241: the comment of the rule (a text without
\* template actions is its own rendering)
AddComment(ok) ==
    /\ jpc = "addComment"
    /\ LET rule == jl.jiraConfig.Rules[jl.rule]
       IN  IF rule.Comment # ""
           THEN /\ jlog' = Logged("AddComment", [key |-> jl.issue.Key,
                                                 body |-> rule.Comment])
                /\ IF ok
                   THEN /\ jira' = [jira EXCEPT !.Comments =
                                       Append(@, rule.Comment)]
                        /\ jpc' = "getTransitions"
                        /\ jl' = jl
                   ELSE /\ jpc' = AfterApply(jl).pc
                        /\ jl' = AfterApply(jl).l
                        /\ jira' = jira
           ELSE /\ jpc' = "getTransitions"
                /\ UNCHANGED <<jl, jira, jlog>>
    /\ UNCHANGED <<synced, tags, gh, cachedGithubUserLogin, restOfJira>>

\* the last transition to desiredStatus, else 0
RECURSIVE LastTransitionTo(_, _, _)
LastTransitionTo(transitions, desiredStatus, i) ==
    IF i > Len(transitions) THEN 0
    ELSE IF LastTransitionTo(transitions, desiredStatus, i + 1) # 0
    THEN LastTransitionTo(transitions, desiredStatus, i + 1)
    ELSE IF transitions[i].To = desiredStatus THEN i
    ELSE 0

\* transitionTo lines 175-183: the first transition to desiredStatus, else 0
RECURSIVE FirstTransitionTo(_, _, _)
FirstTransitionTo(transitions, desiredStatus, i) ==
    IF i > Len(transitions) THEN 0
    ELSE IF transitions[i].To = desiredStatus THEN i
    ELSE FirstTransitionTo(transitions, desiredStatus, i + 1)

\* transitionTo: Issue.GetTransitions
GetTransitions(ok) ==
    /\ jpc = "getTransitions"
    /\ jlog' = Logged("GetTransitions", [key |-> jl.issue.Key])
    /\ LET rule == jl.jiraConfig.Rules[jl.rule]
           t == FirstTransitionTo(jira.Transitions, rule.TransitionTo, 1)
           n == IF ok /\ t # 0
                THEN [pc |-> "doTransition",
                      l |-> [jl EXCEPT !.transition = jira.Transitions[t].ID]]
                ELSE AfterApply(jl)
       IN  jpc' = n.pc /\ jl' = n.l
    /\ UNCHANGED <<synced, tags, gh, jira, cachedGithubUserLogin, restOfJira>>

\* transitionTo: Issue.DoTransitionWithContext
DoTransition(ok) ==
    /\ jpc = "doTransition"
    /\ LET rule == jl.jiraConfig.Rules[jl.rule]
       IN  /\ jlog' = Logged("DoTransition",
                             [key |-> jl.issue.Key, id |-> jl.transition,
                              to |-> rule.TransitionTo])
           /\ jira' = IF ok THEN [jira EXCEPT !.Status = rule.TransitionTo]
                      ELSE jira
    /\ jpc' = AfterApply(jl).pc
    /\ jl' = AfterApply(jl).l
    /\ UNCHANGED <<synced, tags, gh, cachedGithubUserLogin, restOfJira>>

PullRequestEvents == {"opened", "edited", "closed", "sync"}

JiraNext ==
    \/ \E event \in PullRequestEvents, pr \in PRs : HandlePullRequest(event, pr)
    \/ \E state \in {"open", "closed"}, isPR \in BOOLEAN, body \in Bodies :
           HandleIssueCommentCreate(state, isPR, body)
    \/ \E ok \in BOOLEAN, pr \in PRs : PullRequestsGet(ok, pr)
    \/ \E outcome \in {"ok", "404", "unreachable", "500"} : IssueGet(outcome)
    \/ \E ok \in BOOLEAN : CreateCheckRun(ok)
    \/ \E ok \in BOOLEAN : QueuedCheckRun(ok)
    \/ \E ok \in BOOLEAN : CreateComment(ok)
    \/ \E read \in {"", BotLogin, TornLogin} : GithubUserLogin(read)
    \/ \E ok \in BOOLEAN : AppsGet(ok)
    \/ \E ok \in BOOLEAN : ListComments(ok)
    \/ \E ok \in BOOLEAN : DeleteComment(ok)
    \/ NextVersionRuns
    \/ NextVersionStep
    \/ TagPushed
    \/ OtherRunStores
    \/ OtherRunStored
    \/ MatchRules
    \/ \E ok \in BOOLEAN : SetFixVersion(ok)
    \/ \E ok \in BOOLEAN : AddComment(ok)
    \/ \E ok \in BOOLEAN : GetTransitions(ok)
    \/ \E ok \in BOOLEAN : DoTransition(ok)

SpecJira == JiraInit /\ [][JiraNext]_vars

(***************************************************************************)
(* Properties of the rule engine and of the recheck command                *)
(***************************************************************************)
\* the calls that carry out the actions of a rule
RuleCalls ==
    SelectSeq(jlog, LAMBDA e : e.op \in {"UpdateIssue", "AddComment",
                                         "GetTransitions", "DoTransition"})

\* the rules of the Run whose condition holds for its event, issue, pull
\* request and fix version
MatchingRules ==
    {i \in 1..Len(jl.jiraConfig.Rules) :
        matchCondition(jl.event, jl.issue, jl.pr, jl.fixVersion,
                       jl.jiraConfig.Rules[i].When)}

FirstOf(S) == CHOOSE i \in S : \A k \in S : i <= k

\* C7: once Run has gone through its rules, the conditions were evaluated
\* in declared order up to the first rule that matches, and every
\* fix-version update, comment and transition of the Run is the one that
\* rule asks for; no later rule is evaluated or applied, also when it
\* matches.
C7_FirstMatchingRuleOnly ==
    (jl.next # 0 /\ jpc # "rules") =>
        IF MatchingRules = {}
        THEN /\ jl.rule = 0
             /\ RuleCalls = <<>>
             /\ jl.evaluated = [k \in 1..Len(jl.jiraConfig.Rules) |-> k]
        ELSE LET first == FirstOf(MatchingRules)
                 rule == jl.jiraConfig.Rules[first]
             IN  /\ jl.rule = first
                 /\ jl.evaluated = [k \in 1..first |-> k]
                 /\ \A n \in 1..Len(RuleCalls) :
                        LET e == RuleCalls[n]
                        IN  /\ e.rule = first
                            /\ e.op = "UpdateIssue" =>
                                   (rule.SetFixVersion
                                        /\ e.arg.add = jl.fixVersion)
                            /\ e.op = "AddComment" =>
                                   e.arg.body = rule.Comment
                            /\ e.op = "DoTransition" =>
                                   e.arg.to = rule.TransitionTo

C7_Witness ==
    /\ jpc = "done"
    /\ jl.jiraConfig.Rules = <<RuleClose, RuleAny>>
    /\ MatchingRules = {1, 2}
    /\ jl.rule = 1
    /\ Len(RuleCalls) = 4
    /\ jira.Status = "Closed"
    /\ jira.Comments = <<"merged">>
    /\ jira.FixVersions = <<"quay-v3.8.2">>

\* titles of Titles without a token "(PROJECT-123)" at their end, and those
\* whose token is of another project than PROJQUAY, with their token
NoTokenTitles == {"Fix bug", "Fix (PROJQUAY-123) bug"}

OtherProjectToken ==
    [t \in {"Fix bug (OTHER-1)", "Fix bug (PROJQUAYX-7)"} |->
        IF t = "Fix bug (OTHER-1)" THEN "OTHER-1" ELSE "PROJQUAYX-7"]

CheckRunCalls == SelectSeq(jlog, LAMBDA e : e.op = "CreateCheckRun")

\* C8: a Run, for a repository with a Jira project key, on a pull request
\* whose title has no trailing token or a token of another project never
\* calls Issue.Get, evaluates no rule and carries out no rule action; when
\* it returns it has reported one completed check run with conclusion
\* success whose summary says that the title has no issue, or names the
\* issue that is not of the project.
C8_SkippedTitlePasses ==
    (/\ jl.event # ""
     /\ jl.jiraConfig.Key # ""
     /\ jl.pr.Title \in NoTokenTitles \cup DOMAIN OtherProjectToken)
    => /\ \A n \in 1..Len(jlog) : jlog[n].op # "Issue.Get"
       /\ jl.evaluated = <<>>
       /\ jl.next = 0
       /\ RuleCalls = <<>>
       /\ jpc = "done" =>
              /\ Len(CheckRunCalls) = 1
              /\ CheckRunCalls[1].arg.status = "completed"
              /\ CheckRunCalls[1].arg.conclusion = "success"
              /\ IF jl.pr.Title \in NoTokenTitles
                 THEN Contains(CheckRunCalls[1].arg.summary,
                               "the pull request title does not have a Jira issue")
                 ELSE Contains(CheckRunCalls[1].arg.summary,
                               "the Jira issue '"
                                   \o OtherProjectToken[jl.pr.Title]
                                   \o "' is not from the PROJQUAY project")

C8_Witness ==
    /\ jpc = "done"
    /\ jl.event = "opened"
    /\ jl.pr.Title = "Fix bug (OTHER-1)"
    /\ jl.ret = ""
    /\ Len(CheckRunCalls) = 1
    /\ CheckRunCalls[1].arg.conclusion = "success"
    /\ Len(gh.checkRuns) = 1

\* the lines of a text
RECURSIVE LinesFrom(_, _, _)
LinesFrom(s, i, start) ==
    IF i > Len(s) THEN <<SubSeq(s, start, Len(s))>>
    ELSE IF At(s, i) = "\n"
    THEN <<SubSeq(s, start, i - 1)>> \o LinesFrom(s, i + 1, i + 1)
    ELSE LinesFrom(s, i + 1, start)

\* a text in lower case: every letter is replaced by the lower-case letter
\* it is a case of
RECURSIVE CaseFold(_)
CaseFold(s) ==
    IF s = "" THEN ""
    ELSE IF HasPrefix(s, KelvinSign)
    THEN "k" \o CaseFold(SubSeq(s, Len(KelvinSign) + 1, Len(s)))
    ELSE Lower(At(s, 1)) \o CaseFold(SubSeq(s, 2, Len(s)))

RECURSIVE TrimSpace(_)
TrimSpace(s) ==
    IF s = "" THEN ""
    ELSE IF IsSpace(At(s, 1)) THEN TrimSpace(SubSeq(s, 2, Len(s)))
    ELSE IF IsSpace(At(s, Len(s))) THEN TrimSpace(SubSeq(s, 1, Len(s) - 1))
    ELSE s

\* some line of the body is "/recheck", in any case, with optional
\* whitespace before and after it
IsRecheckCommand(body) ==
    \E n \in 1..Len(LinesFrom(body, 1, 1)) :
        CaseFold(TrimSpace(LinesFrom(body, 1, 1)[n])) = "/recheck"

\* C9: for an issue-comment-created event on an open pull request the
\* handler goes on to re-fetch the pull request exactly if some line of the
\* comment is "/recheck", in any case, with optional whitespace before or
\* after it; the Run after the re-fetch has the recheck event.
C9_RecheckIffCommandLine ==
    /\ (/\ jl.source = "issue_comment"
        /\ jl.state = "open"
        /\ jl.isPR
        /\ jlog = <<>>)
       => (jpc = "prGet" <=> IsRecheckCommand(jl.body))
    /\ (jl.source = "issue_comment" /\ jl.event # "")
       => (jl.event = "recheck" /\ jlog[1].op = "PullRequests.Get")

RECURSIVE TrimRight(_)
TrimRight(s) ==
    IF s = "" THEN ""
    ELSE IF IsSpace(At(s, Len(s))) THEN TrimRight(SubSeq(s, 1, Len(s) - 1))
    ELSE s

\* some line of the body starts with "/recheck", in any case, and has
\* nothing but whitespace after it
IsRecheckLine(body) ==
    \E n \in 1..Len(LinesFrom(body, 1, 1)) :
        CaseFold(TrimRight(LinesFrom(body, 1, 1)[n])) = "/recheck"

\* C9 as amended: for an issue-comment-created event on an open pull
\* request the handler goes on to re-fetch the pull request exactly if some
\* line of the comment starts with "/recheck", in any case, followed by
\* nothing but whitespace; the Run after the re-fetch has the recheck event.
C9_RecheckIffLineStartsWithCommand ==
    /\ (/\ jl.source = "issue_comment"
        /\ jl.state = "open"
        /\ jl.isPR
        /\ jlog = <<>>)
       => (jpc = "prGet" <=> IsRecheckLine(jl.body))
    /\ (jl.source = "issue_comment" /\ jl.event # "")
       => (/\ jl.event = "recheck"
           /\ jlog[1].op = "PullRequests.Get"
           /\ jl.state = "open"
           /\ jl.isPR)

C9_Witness ==
    /\ jl.source = "issue_comment"
    /\ jpc = "prGet"
    /\ jl.body = "LGTM\n/Recheck\t\nthanks"
    /\ jlog = <<>>

(***************************************************************************)
(* reactor.HandleCheckSuiteRerequest: its entry                            *)
(***************************************************************************)
restOfSuite ==
    <<cfg, remoteTags, nvpc, nv, ghost, hist, yVars, heads, status, heap, now,
      pc, loc, eh, snap, mc, mu>>

\* HandleCheckSuiteRerequest without the test of the application
HandleCheckSuiteRerequestAnyApp(app, prs) ==
    /\ cs.pc = "idle"
    /\ cs' = IF prs = <<>>
             THEN [NoSuite EXCEPT !.pc = "done", !.app = app, !.prs = prs]
             ELSE [NoSuite EXCEPT !.pc = "get", !.app = app, !.prs = prs,
                                  !.i = 1]
    /\ UNCHANGED <<synced, tags, jiraVars, restOfSuite>>

\* HandleCheckSuiteRerequest up to its first PullRequests.Get
HandleCheckSuiteRerequest(app, prs) ==
    /\ cs.pc = "idle"
    /\ cs' = IF app # cfg.AppID
             THEN [NoSuite EXCEPT !.pc = "done", !.app = app, !.prs = prs]
             ELSE IF prs = <<>>
             THEN [NoSuite EXCEPT !.pc = "done", !.app = app, !.prs = prs]
             ELSE [NoSuite EXCEPT !.pc = "get", !.app = app, !.prs = prs,
                                  !.i = 1]
    /\ UNCHANGED <<synced, tags, jiraVars, restOfSuite>>

(***************************************************************************)
(* EventHandler.HandleEvent                                                *)
(***************************************************************************)
\* A delivery body is the JSON text, written as what it holds: json says
\* whether json.Unmarshal accepts it ("syntax": not JSON, "type": a field of
\* the wrong JSON type), the other fields are the members the handler reads;
\* a member that is absent is the zero value, an absent "repository" the nil
\* pointer <<>>.
NoBody ==
    [json |-> "ok", action |-> "", ref |-> "", repository |-> <<>>,
     comment |-> "", issue |-> <<>>]

\* the "issue" member of an issue_comment delivery: an open pull request
OpenPullRequestIssue == <<[state |-> "open", isPR |-> TRUE, number |-> 7]>>

QuayRepository == <<[name |-> "quay", owner |-> [login |-> "quay"]]>>

EventTypes ==
    {"push", "check_suite", "issue_comment", "pull_request", "ping", ""}

EventActions ==
    {"", "rerequested", "created", "opened", "edited", "closed",
     "synchronize", "deleted", "reopened"}

EventRefs ==
    {"", "refs/heads/master", "refs/heads/feature/x", "refs/tags/v3.8.0",
     "refs/pull/1/head", "refs/heads", "heads/master"}

EventBodies ==
    {[json |-> "ok", action |-> a, ref |-> r, repository |-> repo,
      comment |-> c, issue |-> <<>>] :
        a \in EventActions, r \in EventRefs,
        repo \in {<<>>, QuayRepository}, c \in {"/retest", "/recheck"}}
    \cup {[json |-> "ok", action |-> "created", ref |-> "",
           repository |-> QuayRepository, comment |-> c,
           issue |-> OpenPullRequestIssue] : c \in {"/retest", "/recheck"}}
    \cup {[NoBody EXCEPT !.json = j] : j \in {"syntax", "type"}}

DecodeErr == "json: cannot unmarshal"

UnmarshalLenient(body) == [err |-> "", event |-> [body EXCEPT !.json = "ok"]]

\* json.Unmarshal into the event struct of go-github
Unmarshal(body) ==
    IF body.json = "ok" THEN [err |-> "", event |-> body]
    ELSE [err |-> DecodeErr, event |-> NoBody]

\* the nil-safe getters: GetRepo().GetOwner().GetLogin(), GetRepo().GetName()
GetOwnerLogin(event) ==
    IF event.repository = <<>> THEN "" ELSE event.repository[1].owner.login

GetRepoName(event) ==
    IF event.repository = <<>> THEN "" ELSE event.repository[1].name

\* what HandleEvent does next: return err, call a handler of the reactor, or
\* panic
Return(err) ==
    [kind |-> "return", err |-> err, handler |-> "", org |-> "", repo |-> "",
     arg |-> ""]

Call(handler, org, repo, arg) ==
    [kind |-> "call", err |-> "", handler |-> handler, org |-> org,
     repo |-> repo, arg |-> arg]

Panic ==
    [kind |-> "panic", err |-> "", handler |-> "", org |-> "", repo |-> "",
     arg |-> ""]

\* event.Repo.Owner.GetLogin() and event.Repo.GetName() as arguments of a
\* call: Repo is dereferenced, a nil Repo is a nil pointer dereference
CallWithRepo(handler, event, arg) ==
    IF event.repository = <<>> THEN Panic
    ELSE Call(handler, event.repository[1].owner.login,
              event.repository[1].name, arg)

PullRequestHandlerOrEdit(action) ==
    CASE action = "opened" -> "HandlePullRequestCreate"
      [] action = "closed" -> "HandlePullRequestClose"
      [] action = "synchronize" -> "HandlePullRequestSynchronize"
      [] OTHER -> "HandlePullRequestEdit"

\* the switch on prEvent.GetAction(): the handler, "" if no case applies
PullRequestHandler(action) ==
    CASE action = "opened" -> "HandlePullRequestCreate"
      [] action = "edited" -> "HandlePullRequestEdit"
      [] action = "closed" -> "HandlePullRequestClose"
      [] action = "synchronize" -> "HandlePullRequestSynchronize"
      [] OTHER -> ""

\* HandleEvent up to its return, its call of the reactor or its panic
HandleEventSwitch(eventType, body) ==
    LET u == Unmarshal(body)
        e == u.event
    IN  CASE eventType = "check_suite" ->
               IF u.err # "" THEN Return(u.err)
               ELSE IF e.action = "rerequested"
               THEN Call("HandleCheckSuiteRerequest", GetOwnerLogin(e),
                         GetRepoName(e), "")
               ELSE Return("")
          [] eventType = "issue_comment" ->
               IF u.err # "" THEN Return(u.err)
               ELSE IF e.action = "created"
               THEN CallWithRepo("HandleIssueCommentCreate", e, e.comment)
               ELSE Return("")
          [] eventType = "pull_request" ->
               IF u.err # "" THEN Return(u.err)
               ELSE IF PullRequestHandler(e.action) # ""
               THEN CallWithRepo(PullRequestHandler(e.action), e, "")
               ELSE Return("")
          [] eventType = "push" ->
               IF u.err # "" THEN Return(u.err)
               ELSE IF HasPrefix(e.ref, "refs/heads/")
               THEN CallWithRepo("HandleBranchPush", e,
                                 TrimPrefix(e.ref, "refs/heads/"))
               ELSE IF HasPrefix(e.ref, "refs/tags/")
               THEN CallWithRepo("HandleTagPush", e,
                                 TrimPrefix(e.ref, "refs/tags/"))
               ELSE Return("")
          [] OTHER -> Return("")

\* the version caches a delivery can find: empty, or quay/quay listed
EventCaches ==
    {[synced |-> EmptyMap, tags |-> EmptyMap],
     [synced |-> addRefsSynced(EmptyMap, "quay", "quay"),
      tags |-> addRefsTags(EmptyMap, "quay", "quay", <<"refs/tags/v3.8.1">>)]}

EventInit ==
    /\ \E c \in EventCaches : synced = c.synced /\ tags = c.tags
    /\ remoteTags = [r \in {repoKey(Org, repo) : repo \in Repos} |->
                        IF r = "quay/quay" THEN <<"refs/tags/v3.8.1">>
                        ELSE <<>>]
    /\ nvpc = [c \in Callers |-> "idle"]
    /\ nv = [c \in Callers |-> NoCall]
    /\ ghost = NoGhost
    /\ hist = NoHistory
    /\ YInitIdle
    /\ SyncInitIdle
    /\ JiraIdle
    /\ eh = NoDelivery
    /\ snap = NoSnapshot
    /\ mc = NoMatch
    /\ cs = NoSuite
    /\ mu = NoMutex

\* a delivery arrives (main calls HandleEvent for every request with a
\* body): HandleEvent runs up to its return, its panic or its call of the
\* reactor
HandleEvent(eventType, body) ==
    /\ eh.pc = "idle"
    /\ LET d == HandleEventSwitch(eventType, body)
       IN  eh' = [pc |-> CASE d.kind = "return" -> "returned"
                           [] d.kind = "call" -> "called"
                           [] d.kind = "panic" -> "panicked",
                  eventType |-> eventType,
                  body |-> body,
                  calls |-> IF d.kind = "call"
                            THEN <<[handler |-> d.handler, org |-> d.org,
                                    repo |-> d.repo, arg |-> d.arg]>>
                            ELSE <<>>,
                  ret |-> d.err]
    /\ UNCHANGED <<synced, tags, restOfEvent>>

\* the webhook worker that runs the handlers of the delivery
EventWorker == "w1"

PullRequestHandlers ==
    {"HandlePullRequestCreate", "HandlePullRequestEdit",
     "HandlePullRequestClose", "HandlePullRequestSynchronize"}

\* the checks.Event each pull request handler passes to Run
EventOf(handler) ==
    CASE handler = "HandlePullRequestCreate" -> "opened"
      [] handler = "HandlePullRequestEdit" -> "edited"
      [] handler = "HandlePullRequestClose" -> "closed"
      [] handler = "HandlePullRequestSynchronize" -> "sync"

\* the messages of errs without repetitions, joined with ", "
RECURSIVE JoinUnseen(_, _, _)
JoinUnseen(errs, i, seen) ==
    IF i > Len(errs) THEN ""
    ELSE IF errs[i] \in seen THEN JoinUnseen(errs, i + 1, seen)
    ELSE (IF seen = {} THEN "" ELSE ", ") \o errs[i]
             \o JoinUnseen(errs, i + 1, seen \cup {errs[i]})

\* the text of the error HandleBranchPush returns, "" for nil:
\* errors.NewAggregate(errs).Error()
AggregateError(errs) ==
    IF errs = <<>> THEN ""
    ELSE IF Len(errs) = 1 THEN errs[1]
    ELSE IF \A i \in 1..Len(errs) : errs[i] = errs[1]
    THEN errs[1]
    ELSE "[" \o JoinUnseen(errs, 1, {}) \o "]"

\* the handler HandleEvent called starts: reactor.HandleBranchPush
ReactorHandleBranchPush ==
    /\ eh.pc = "called"
    /\ eh.calls[1].handler = "HandleBranchPush"
    /\ HandleBranchPush(EventWorker, eh.calls[1].org, eh.calls[1].repo,
                        eh.calls[1].arg)

\* reactor.HandlePullRequestCreate, -Edit, -Close, -Synchronize: the body
\* has no "pull_request" member, pr is nil and its getters give zero values
ReactorHandlePullRequest ==
    /\ eh.pc = "called"
    /\ eh.calls[1].handler \in PullRequestHandlers
    /\ HandlePullRequest(EventOf(eh.calls[1].handler), NoPR)

\* reactor.HandleIssueCommentCreate with the issue and the comment of the body
ReactorHandleIssueCommentCreate ==
    /\ eh.pc = "called"
    /\ eh.calls[1].handler = "HandleIssueCommentCreate"
    /\ LET issue == eh.body.issue
       IN  IF issue = <<>>
           THEN HandleIssueCommentCreate("", FALSE, eh.calls[1].arg)
           ELSE HandleIssueCommentCreate(issue[1].state, issue[1].isPR,
                                         eh.calls[1].arg)

\* reactor.HandleCheckSuiteRerequest: the body has no "check_suite" member,
\* checkSuite is nil, its application has the ID 0 and it has no pull request
ReactorHandleCheckSuiteRerequest ==
    /\ eh.pc = "called"
    /\ eh.calls[1].handler = "HandleCheckSuiteRerequest"
    /\ HandleCheckSuiteRerequest(0, <<>>)

\* what PullRequests.Get answers for the issue of the delivery
EventFetched ==
    {[Number |-> 7, Title |-> "Fix bug (PROJQUAY-123)", Merged |-> FALSE,
      Base |-> "release", HeadSHA |-> "h1"]}

\* the handler of the reactor returns and HandleEvent returns its result:
\* HandleTagPush invalidates the tag cache and returns nil; the other handlers
\* have run to their return (jlog, the history of the calls of the handler,
\* starts again with the next delivery)
ReactorReturn ==
    /\ eh.pc = "called"
    /\ LET call == eh.calls[1]
       IN  CASE call.handler = "HandleTagPush" ->
                  /\ eh' = [eh EXCEPT !.pc = "returned", !.ret = ""]
                  /\ synced' = InvalidateCache(synced, tags).synced
                  /\ tags' = InvalidateCache(synced, tags).tags
                  /\ UNCHANGED <<pc, loc, jpc, jl, jlog, cs>>
             [] call.handler = "HandleBranchPush" ->
                  /\ pc[EventWorker] = "done"
                  /\ eh' = [eh EXCEPT
                              !.pc = "returned",
                              !.ret = AggregateError(loc[EventWorker].ret)]
                  /\ pc' = [pc EXCEPT ![EventWorker] = "idle"]
                  /\ loc' = [loc EXCEPT ![EventWorker] = NoLocals]
                  /\ UNCHANGED <<synced, tags, jpc, jl, jlog, cs>>
             [] call.handler = "HandleCheckSuiteRerequest" ->
                  /\ cs.pc = "done"
                  /\ eh' = [eh EXCEPT !.pc = "returned", !.ret = cs.ret]
                  /\ cs' = NoSuite
                  /\ UNCHANGED <<synced, tags, pc, loc, jpc, jl, jlog>>
             [] OTHER ->
                  /\ jpc = "done"
                  /\ eh' = [eh EXCEPT !.pc = "returned", !.ret = jl.ret]
                  /\ jpc' = "idle"
                  /\ jl' = NoJl
                  /\ jlog' = <<>>
                  /\ UNCHANGED <<synced, tags, pc, loc, cs>>
    /\ UNCHANGED <<remoteTags, nvpc, nv, ghost, hist, yVars, cfg, heads,
                   status, heap, now, gh, jira, cachedGithubUserLogin, snap,
                   mc, mu>>

\* main answers the request (204, or 500 for an error; the HTTP server
\* recovers a panic of the handler) and the next delivery can arrive
Respond ==
    /\ eh.pc \in {"returned", "panicked"}
    /\ eh' = NoDelivery
    /\ UNCHANGED <<synced, tags, restOfEvent>>

EventNext ==
    \/ \E eventType \in EventTypes, body \in EventBodies :
          HandleEvent(eventType, body)
    \/ ReactorHandleBranchPush
    \/ ReactorHandlePullRequest
    \/ ReactorHandleIssueCommentCreate
    \/ ReactorHandleCheckSuiteRerequest
    \/ \E ok \in BOOLEAN, pr \in EventFetched : PullRequestsGet(ok, pr)
    \/ SourcePush("quay/quay:master")
    \/ SyncStart(EventWorker)
    \/ HandlerReturn(EventWorker)
    \/ GetSrcOk(EventWorker)
    \/ GetSrcFail(EventWorker)
    \/ GetDstOk(EventWorker)
    \/ GetDstFail(EventWorker)
    \/ UpdateRef(EventWorker)
    \/ UpdateRefFail(EventWorker)
    \/ StatusErr(EventWorker)
    \/ StatusOk(EventWorker)
    \/ ReactorReturn
    \/ Respond

SpecEvent == EventInit /\ [][EventNext]_vars

(***************************************************************************)
(* Properties of the event handler                                         *)
(***************************************************************************)
\* a delivery was handed to HandleEvent and its body is valid JSON of the
\* right shape
Delivered == eh.pc # "idle"

Decoded == Delivered /\ eh.body.json = "ok"

\* HandleEvent called exactly this handler, once, and has not panicked
CalledOnly(handler, arg) ==
    /\ eh.pc \in {"called", "returned"}
    /\ Len(eh.calls) = 1
    /\ eh.calls[1].handler = handler
    /\ eh.calls[1].arg = arg

\* HandleEvent returned nil and called no handler
Ignored == eh.pc = "returned" /\ eh.ret = "" /\ eh.calls = <<>>

\* C11: for a push event, a ref that starts with refs/heads/ makes HandleEvent
\* call HandleBranchPush, and nothing else, with the rest of the ref as the
\* branch; a ref that starts with refs/tags/ makes it call HandleTagPush, and
\* nothing else, with the rest of the ref as the tag; any other ref makes it
\* call no handler and return nil.
C11_PushRefSelectsHandler ==
    (Decoded /\ eh.eventType = "push") =>
        LET ref == eh.body.ref
        IN  IF Len(ref) >= 11 /\ SubSeq(ref, 1, 11) = "refs/heads/"
            THEN CalledOnly("HandleBranchPush", SubSeq(ref, 12, Len(ref)))
            ELSE IF Len(ref) >= 10 /\ SubSeq(ref, 1, 10) = "refs/tags/"
            THEN CalledOnly("HandleTagPush", SubSeq(ref, 11, Len(ref)))
            ELSE Ignored

\* the handler each recognized (event type, action) pair stands for
ExpectedHandler ==
    [t \in {"check_suite", "issue_comment", "pull_request"} |->
        CASE t = "check_suite" ->
               [a \in {"rerequested"} |-> "HandleCheckSuiteRerequest"]
          [] t = "issue_comment" ->
               [a \in {"created"} |-> "HandleIssueCommentCreate"]
          [] t = "pull_request" ->
               [a \in {"opened", "edited", "closed", "synchronize"} |->
                  CASE a = "opened" -> "HandlePullRequestCreate"
                    [] a = "edited" -> "HandlePullRequestEdit"
                    [] a = "closed" -> "HandlePullRequestClose"
                    [] a = "synchronize" -> "HandlePullRequestSynchronize"]]

RecognizedPair(eventType, action) ==
    /\ eventType \in DOMAIN ExpectedHandler
    /\ action \in DOMAIN ExpectedHandler[eventType]

\* what the handler HandleEvent called has returned
HandlerResult ==
    LET handler == eh.calls[1].handler
    IN  CASE handler = "HandleTagPush" -> ""
          [] handler = "HandleBranchPush" -> AggregateError(loc[EventWorker].ret)
          [] handler = "HandleCheckSuiteRerequest" -> cs.ret
          [] OTHER -> jl.ret

\* C12: a delivery with a recognized (event type, action) pair makes
\* HandleEvent call the handler of that pair, exactly once and no other,
\* whatever the comment body of an issue_comment is, and HandleEvent returns
\* what the handler returned.
C12_RecognizedPairCallsItsHandler ==
    /\ []((Decoded /\ RecognizedPair(eh.eventType, eh.body.action)) =>
            /\ eh.pc \in {"called", "returned"}
            /\ Len(eh.calls) = 1
            /\ eh.calls[1].handler =
                   ExpectedHandler[eh.eventType][eh.body.action]
            /\ eh.eventType = "issue_comment" =>
                   eh.calls[1].arg = eh.body.comment)
    /\ [][(/\ eh.pc = "called"
           /\ RecognizedPair(eh.eventType, eh.body.action)
           /\ eh'.pc = "returned") => eh'.ret = HandlerResult]_vars

\* the event types HandleEvent has a case for
RecognizedTypes == {"push", "check_suite", "issue_comment", "pull_request"}

\* a delivery of an unrecognized type (its body is not even decoded), or a
\* decoded one of a type with actions whose action is not a recognized one
Unrecognized(d) ==
    \/ d.eventType \notin RecognizedTypes
    \/ /\ d.body.json = "ok"
       /\ d.eventType \in DOMAIN ExpectedHandler
       /\ d.body.action \notin DOMAIN ExpectedHandler[d.eventType]

\* C13: a delivery with an unrecognized event type, or with a recognized type
\* and an unrecognized action, makes HandleEvent return nil without calling a
\* handler, and handling it changes neither the tag cache, nor the status
\* store, nor the hosting service or the issue tracker.
C13_UnrecognizedIgnored ==
    /\ [](Delivered /\ Unrecognized(eh) => Ignored)
    /\ [][(/\ eh' # eh
           /\ \/ eh'.pc # "idle" /\ Unrecognized(eh')
              \/ eh.pc # "idle" /\ Unrecognized(eh)) =>
            UNCHANGED <<synced, tags, remoteTags, heads, status, heap, gh,
                        jira>>]_vars

\* a pull_request delivery with action reopened was ignored while the tag
\* cache held the tags of quay/quay
C13_Witness ==
    /\ eh.pc = "returned"
    /\ eh.eventType = "pull_request"
    /\ eh.body.action = "reopened"
    /\ eh.body.repository # <<>>
    /\ eh.calls = <<>>
    /\ hasSynced(synced, "quay", "quay")

\* C14: a delivery of a recognized event type whose body json.Unmarshal
\* rejects (not JSON, or a member of the wrong type) makes HandleEvent return
\* the decode error without calling a handler.  (HandleEvent does not decode
\* the body of an unrecognized event type: that delivery is ignored, C13.)
C14_MalformedBodyIsDecodeError ==
    (Delivered /\ eh.eventType \in RecognizedTypes /\ eh.body.json # "ok") =>
        /\ eh.pc = "returned"
        /\ eh.ret = DecodeErr
        /\ eh.calls = <<>>

\* a push delivery with a body that is not JSON returned the decode error
C14_Witness ==
    /\ eh.pc = "returned"
    /\ eh.eventType = "push"
    /\ eh.body.json = "syntax"
    /\ eh.ret = DecodeErr
    /\ eh.calls = <<>>

(***************************************************************************)
(* StatusInformer: updates and snapshots                                   *)
(***************************************************************************)
MaxTime == 3        \* the clock runs from 1 to MaxTime

\* the branches sync stores a status for, and the statuses it stores
StatusBranches == {"quay/quay:release", "quay/clair:stable"}

StatusInputs ==
    {[state |-> "Synced",
      message |-> "synched from quay/quay:master, commit: c1"],
     [state |-> "Synced",
      message |-> "synched from quay/quay:master, commit: c2"],
     [state |-> "Error",
      message |-> "failed to get source ref: " \o RemoteErr]}

StatusInit ==
    /\ TagInit
    /\ YInitIdle
    /\ SyncInitIdle
    /\ JiraIdle
    /\ eh = NoDelivery
    /\ snap = NoSnapshot
    /\ mc = NoMatch
    /\ cs = NoSuite
    /\ mu = NoMutex

\* time passes
Tick ==
    /\ now < MaxTime
    /\ now' = now + 1
    /\ UNCHANGED <<status, heap, snap, restOfStatus>>

\* a sync calls si.UpdateBranchSyncStatus(branch, state, message)
StatusUpdate(branch, state, message) ==
    /\ LET u == UpdateBranchSyncStatus(status, heap, branch, state, message,
                                       now)
       IN  status' = u.status /\ heap' = u.heap
    /\ UNCHANGED <<now, snap, restOfStatus>>

\* Status.DeepCopy: make and copy give a new slice of the same BranchStatus
\* values; a BranchStatus holds the pointer SyncStatus, so the copy points to
\* the same BranchSyncStatus objects
DeepCopy(branches) == [i \in 1..Len(branches) |-> branches[i]]

\* a reader calls si.statusSnapshot().  History: seen, the objects as they
\* were when the snapshot was returned
StatusSnapshot ==
    /\ ~snap.taken
    /\ snap' = [taken |-> TRUE, Branches |-> DeepCopy(status), seen |-> heap]
    /\ UNCHANGED <<status, heap, now, restOfStatus>>

\* the reader is done with its snapshot (the response is written)
SnapshotDone ==
    /\ snap.taken
    /\ snap' = NoSnapshot
    /\ UNCHANGED <<status, heap, now, restOfStatus>>

StatusNext ==
    \/ Tick
    \/ \E branch \in StatusBranches, in \in StatusInputs :
          StatusUpdate(branch, in.state, in.message)
    \/ StatusSnapshot
    \/ SnapshotDone

SpecStatus == StatusInit /\ [][StatusNext]_vars

(***************************************************************************)
(* Properties of the status informer                                       *)
(***************************************************************************)
\* C15: whatever a reader sees through a snapshot that statusSnapshot
\* returned (state, message, heartbeat time, transition time of each entry)
\* stays what it was when the snapshot was returned, whatever
\* UpdateBranchSyncStatus calls follow.
C15_SnapshotIsDeepCopy ==
    snap.taken =>
        \A i \in 1..Len(snap.Branches) :
            LET p == snap.Branches[i].SyncStatus
            IN  p # NilPtr => heap[p] = snap.seen[p]

\* C16: an UpdateBranchSyncStatus call for a branch stores the state and the
\* message, sets LastHeartbeatTime to the time of the call, and sets
\* LastTransitionTime to that time if the entry is new or the state or the
\* message differs from the stored one, and else keeps it (so, the clock
\* having advanced since the last update, LastTransitionTime changes if and
\* only if state or message differ or the entry is new); the entries of the
\* other branches stay as they are and no entry is added for a branch that
\* has one.
C16_HeartbeatAndTransitionTimes ==
    [][\A branch \in StatusBranches, in \in StatusInputs :
         StatusUpdate(branch, in.state, in.message) =>
            LET old == StatusOf(status, heap, branch)
                new == StatusOf(status', heap', branch)
                created == FindBranch(status, branch, 1) = 0
                differs == old.Status # in.state \/ old.Message # in.message
            IN  /\ new.Status = in.state
                /\ new.Message = in.message
                /\ new.LastHeartbeatTime = now
                /\ new.LastTransitionTime =
                       IF created \/ differs THEN now
                       ELSE old.LastTransitionTime
                /\ now > old.LastHeartbeatTime =>
                       ((new.LastTransitionTime # old.LastTransitionTime)
                            <=> (created \/ differs))
                /\ Len(status') = Len(status) + (IF created THEN 1 ELSE 0)
                /\ \A other \in StatusBranches \ {branch} :
                       StatusOf(status', heap', other)
                           = StatusOf(status, heap, other)]_vars

\* one entry was updated again with the same state and message at a later
\* time, another changed its state at the latest time
C16_Witness ==
    LET a == StatusOf(status, heap, "quay/quay:release")
        b == StatusOf(status, heap, "quay/clair:stable")
    IN  /\ Len(status) = 2
        /\ a.Status = "Synced"
        /\ a.LastTransitionTime = 1
        /\ a.LastHeartbeatTime = 3
        /\ b.Status = "Error"
        /\ b.LastTransitionTime = 3
        /\ b.LastHeartbeatTime = 3
        /\ now = 3

(***************************************************************************)
(* The tag informer under concurrent first accesses and failing listings   *)
(***************************************************************************)
RaceRepo == "quay"

RaceTags == {"refs/tags/v3.8.0", "refs/tags/v3.8.1", "refs/tags/v3.8.2"}

\* the listings of the repository: any of the tags, in any order of creation
RaceListings ==
    {l \in SeqsUpTo(RaceTags, 3) :
        \A i, j \in 1..Len(l) : i # j => l[i] # l[j]}

RaceInit ==
    /\ synced = EmptyMap
    /\ tags = EmptyMap
    /\ \E l \in RaceListings :
          remoteTags = [r \in {repoKey(Org, repo) : repo \in Repos} |->
                           IF r = repoKey(Org, RaceRepo) THEN l ELSE <<>>]
    /\ nvpc = [c \in Callers |-> "idle"]
    /\ nv = [c \in Callers |-> NoCall]
    /\ ghost = NoGhost
    /\ hist = NoHistory
    /\ YInitIdle
    /\ SyncInitIdle
    /\ JiraIdle
    /\ eh = NoDelivery
    /\ snap = NoSnapshot
    /\ mc = NoMatch
    /\ cs = NoSuite
    /\ mu = NoMutex

\* another call for the repository is on its way through init
Racing(c, repo) ==
    /\ ~hasSynced(synced, Org, repo)
    /\ \E d \in Callers \ {c} :
          nvpc[d] \in {"init", "addRefs"} /\ nv[d].repo = repo

\* the last call of some caller for the repository failed and the repository
\* is not synced
AfterFailure(repo) ==
    /\ ~hasSynced(synced, Org, repo)
    /\ \E d \in Callers :
          nvpc[d] = "idle" /\ nv[d].status = "error" /\ nv[d].repo = repo

RaceCall(c, xy) ==
    /\ NVCall(c, RaceRepo, xy)
    /\ hist' = [d \in Callers |->
                  IF d = c
                  THEN [race |-> Racing(c, RaceRepo),
                        retry |-> AfterFailure(RaceRepo)]
                  ELSE [hist[d] EXCEPT
                          !.race = @ \/ (Racing(c, RaceRepo)
                                         /\ nv[d].repo = RaceRepo)]]

RaceTagPush ==
    /\ HandleTagPush(Org, RaceRepo, "v3.8.1")
    /\ hist' = [c \in Callers |-> [hist[c] EXCEPT !.race = FALSE]]

RaceNext ==
    \/ \E c \in Callers, xy \in Streams : RaceCall(c, xy)
    \/ \E c \in Callers : NVInitFetch(c) /\ UNCHANGED hist
    \/ \E c \in Callers : NVInitFail(c) /\ UNCHANGED hist
    \/ \E c \in Callers : NVAddRefs(c) /\ UNCHANGED hist
    \/ \E c \in Callers : NVRead(c) /\ UNCHANGED hist
    \/ RaceTagPush

SpecTagRace == RaceInit /\ [][RaceNext]_vars

\* the patch numbers a listing holds for a stream, and what one call that
\* lists it returns for the stream
TagOf(xy, n) == "refs/tags/v" \o xy \o "." \o ToString(n)

ListedPatches(listing, xy) ==
    {n \in 0..9 : \E i \in 1..Len(listing) : listing[i] = TagOf(xy, n)}

\* the numerals of the numbers of S, in ascending order
RECURSIVE Ascending(_)
Ascending(S) ==
    IF S = {} THEN <<>>
    ELSE LET m == CHOOSE x \in S : \A y \in S : x <= y
         IN  <<ToString(m)>> \o Ascending(S \ {m})

\* the number a numeral of the listings stands for
PatchOf(n) == CHOOSE m \in 0..9 : ToString(m) = n

SingleCall(listing, xy) ==
    LET S == ListedPatches(listing, xy)
    IN  xy \o "." \o ToString(IF S = {} THEN 0 ELSE SetMax(S) + 1)

\* C17: in every reachable state, whatever the interleaving of NextVersion
\* calls, listings (also failing ones) and InvalidateCache, the patch numbers
\* the cache holds for a stream are strictly ascending.
C17_StreamsStrictlyAscending ==
    \A k \in DOMAIN tags :
        \A i \in 1..(Len(tags[k]) - 1) :
            PatchOf(tags[k][i]) < PatchOf(tags[k][i + 1])

\* the tags were created in the order 3.8.2, 3.8.0, 3.8.1; one caller has
\* merged the listing and returned, the other holds the listing to merge it
\* again
C17_Witness ==
    /\ remoteTags[repoKey(Org, RaceRepo)]
         = <<"refs/tags/v3.8.2", "refs/tags/v3.8.0", "refs/tags/v3.8.1">>
    /\ MapGet(tags, key(Org, RaceRepo, "3.8"), <<>>) = <<"0", "1", "2">>
    /\ nvpc["c1"] = "addRefs"
    /\ Len(nv["c1"].refs) = 3
    /\ Returned("c2")
    /\ nv["c2"].result = "3.8.3"

\* both calls of a race have returned a version
RaceOver(c, d) ==
    /\ c # d
    /\ Returned(c) /\ nv[c].status = "ok" /\ hist[c].race
    /\ Returned(d) /\ nv[d].status = "ok" /\ hist[d].race
    /\ nv[c].repo = nv[d].repo

\* C18: when two NextVersion calls for a repository that is not synced
\* overlap, so that both list the tags, and the cache is not invalidated
\* meanwhile, then once both have returned each has listed the tags once, the
\* cache holds for every stream exactly the patch numbers of the listing, in
\* ascending order, and each call has returned what a single call returns for
\* its stream.
C18_ConcurrentFirstAccessesAgree ==
    \A c, d \in Callers :
        RaceOver(c, d) =>
            LET listing == remoteTags[repoKey(Org, nv[c].repo)]
            IN  /\ nv[c].fetches = 1
                /\ nv[d].fetches = 1
                /\ hasSynced(synced, Org, nv[c].repo)
                /\ \A xy \in Streams :
                      MapGet(tags, key(Org, nv[c].repo, xy), <<>>)
                          = Ascending(ListedPatches(listing, xy))
                /\ nv[c].result = SingleCall(listing, nv[c].xy)
                /\ nv[d].result = SingleCall(listing, nv[d].xy)

\* both calls of a race listed three tags created out of order; one asked
\* for stream 3.8 and the other for stream 3.9, which has no tag
C18_Witness ==
    /\ RaceOver("c1", "c2")
    /\ Len(remoteTags[repoKey(Org, RaceRepo)]) = 3
    /\ remoteTags[repoKey(Org, RaceRepo)][1] = "refs/tags/v3.8.1"
    /\ nv["c1"].result = "3.8.3"
    /\ nv["c2"].result = "3.9.0"

\* C19: a failing listing makes NextVersion return the error and no
\* version, and leaves the synced flags and the cached streams as they are;
\* a call for the repository that starts after such a failure, with the
\* repository still not synced, lists the tags again before it reads the
\* cache.
C19_FailedListingIsRetried ==
    /\ [][\A c \in Callers :
            NVInitFail(c) =>
               /\ synced' = synced
               /\ tags' = tags
               /\ Returned(c)'
               /\ nv'[c].status = "error"
               /\ nv'[c].result = ""]_vars
    /\ [](\A c \in Callers :
            hist[c].retry =>
               /\ nvpc[c] = "init" => nv[c].fetches = 0
               /\ (nvpc[c] \in {"addRefs", "read"} \/ Returned(c))
                     => nv[c].fetches = 1)

\* a call that started after a failed one has listed the tags and returned a
\* version
C19_Witness ==
    \E c \in Callers :
        /\ hist[c].retry
        /\ Returned(c)
        /\ nv[c].status = "ok"
        /\ nv[c].fetches = 1
        /\ nv[c].result = "3.8.3"


(***************************************************************************)
(* matchCondition applied to every combination of a small set of inputs    *)
(***************************************************************************)
\* the Event constants of checks/jira.go
MatchEvents == {"closed", "edited", "opened", "sync", "recheck"}

\* issue.Fields.Status.Name and the names of issue.Fields.FixVersions
MatchIssues ==
    [Status : {"To Do", "In Progress"},
     FixVersions : {<<>>, <<"quay-v3.8.1">>, <<"quay-v3.9.0">>,
                    <<"quay-v3.9.0", "quay-v3.8.1">>}]

\* the pull request: whether MergedAt is set
MatchPullRequests == [Merged : BOOLEAN]

\* the prospective fix version: empty when the branch has no release stream
MatchFixVersions == {"", "quay-v3.8.1"}

\* configuration.JiraCondition: two lists and two *bool
MatchConditions ==
    [Status : {<<>>, <<"To Do">>, <<"In Progress", "To Do">>},
     Merged : {<<>>, <<TRUE>>, <<FALSE>>},
     HasFixVersion : {<<>>, <<TRUE>>, <<FALSE>>},
     Event : {<<>>, <<"closed">>, <<"opened", "recheck">>}]

MatchInit ==
    /\ TagInit
    /\ YInitIdle
    /\ SyncInitIdle
    /\ JiraIdle
    /\ eh = NoDelivery
    /\ snap = NoSnapshot
    /\ cs = NoSuite
    /\ mu = NoMutex
    /\ \E event \in MatchEvents, issue \in MatchIssues,
          pr \in MatchPullRequests, fixVersion \in MatchFixVersions,
          cond \in MatchConditions :
            mc = [event |-> event, issue |-> issue, pr |-> pr,
                  fixVersion |-> fixVersion, cond |-> cond,
                  called |-> FALSE, result |-> FALSE]

\* the call matchCondition(event, issue, pr, fixVersion, cond)
MatchCall ==
    /\ ~mc.called
    /\ mc' = [mc EXCEPT !.called = TRUE,
                        !.result = matchCondition(mc.event, mc.issue, mc.pr,
                                                  mc.fixVersion, mc.cond)]
    /\ UNCHANGED restOfMatch

MatchNext == MatchCall

SpecMatch == MatchInit /\ [][MatchNext]_vars

\* the predicates of a condition, each true when it is absent
StatusPredicate ==
    \/ mc.cond.Status = <<>>
    \/ \E i \in DOMAIN mc.cond.Status : mc.cond.Status[i] = mc.issue.Status

MergedPredicate ==
    \/ mc.cond.Merged = <<>>
    \/ mc.cond.Merged[1] = mc.pr.Merged

EventPredicate ==
    \/ mc.cond.Event = <<>>
    \/ \E i \in DOMAIN mc.cond.Event : mc.cond.Event[i] = mc.event

\* the issue carries the prospective fix version
Carries ==
    \E i \in DOMAIN mc.issue.FixVersions :
        mc.issue.FixVersions[i] = mc.fixVersion

\* the issue carries or lacks the prospective fix version as requested
FixVersionAsRequested ==
    \/ mc.cond.HasFixVersion = <<>>
    \/ mc.cond.HasFixVersion[1] = Carries

\* ... and a prospective fix version was computed
FixVersionComputedAndAsRequested ==
    \/ mc.cond.HasFixVersion = <<>>
    \/ mc.fixVersion # "" /\ mc.cond.HasFixVersion[1] = Carries

\* C20 as stated: a condition matches if and only if every predicate present
\* in it holds, where the fix-version predicate holds when the issue carries
\* or lacks the prospective fix version as requested; a condition with no
\* predicate matches.
C20_MatchesIffPredicatesHold ==
    mc.called =>
        /\ mc.result <=> /\ StatusPredicate
                         /\ MergedPredicate
                         /\ FixVersionAsRequested
                         /\ EventPredicate
        /\ mc.cond = NoCondition => mc.result

\* C20, amended: a condition matches if and only if every predicate present
\* in it holds, where the fix-version predicate holds when a prospective fix
\* version was computed and the issue carries or lacks it as requested; a
\* condition with no predicate matches every issue, pull request and event.
C20_MatchesIffPredicatesHoldWithVersion ==
    mc.called =>
        /\ mc.result <=> /\ StatusPredicate
                         /\ MergedPredicate
                         /\ FixVersionComputedAndAsRequested
                         /\ EventPredicate
        /\ mc.cond = NoCondition => mc.result

\* a condition that asks for the fix version to be absent, evaluated with no
\* prospective fix version while every other predicate holds: no match
C20_Witness ==
    /\ mc.called
    /\ mc.cond.HasFixVersion = <<FALSE>>
    /\ mc.fixVersion = ""
    /\ mc.cond.Status # <<>> /\ StatusPredicate
    /\ mc.cond.Merged # <<>> /\ MergedPredicate
    /\ mc.cond.Event # <<>> /\ EventPredicate
    /\ ~mc.result


(***************************************************************************)
(* Properties of Run: a failed Issue.Get, the transition, the fix version, *)
(* the cleanup of old comments                                             *)
(***************************************************************************)
\* the calls of the Run after its Issue.Get
RECURSIVE AfterIssueGetFrom(_)
AfterIssueGetFrom(n) ==
    IF n > Len(jlog) THEN <<>>
    ELSE IF jlog[n].op = "Issue.Get" THEN SubSeq(jlog, n + 1, Len(jlog))
    ELSE AfterIssueGetFrom(n + 1)

AfterIssueGet == AfterIssueGetFrom(1)

IssueGetFailed == jl.resp \in {"404", "unreachable", "500"}

InternalErrorBody(msg) == msg \o "\n" \o internalErrorMarker \o "\n"

\* C21: when Issue.Get fails the Run evaluates no rule, computes no fix
\* version and calls the issue tracker no more, and the issue tracker stays
\* as it is; after a failure without response and after a 500 response the
\* Run goes on with the queued check run and the comment that carries the
\* message of the internal error and its marker, after a 404 response it
\* goes on with a completed check run of conclusion failure that says that
\* the issue does not exist.
C21_IssueFetchFailureReports ==
    /\ [](IssueGetFailed =>
            /\ jl.evaluated = <<>>
            /\ jl.next = 0
            /\ jl.rule = 0
            /\ RuleCalls = <<>>
            /\ \A n \in 1..Len(AfterIssueGet) :
                   AfterIssueGet[n].op \in {"CreateCheckRun", "CreateComment",
                                            "Apps.Get", "ListComments",
                                            "DeleteComment"}
            /\ jpc = "done" =>
                   /\ Len(CheckRunCalls) = 1
                   /\ AfterIssueGet[1] = CheckRunCalls[1]
                   /\ IF jl.resp = "404"
                      THEN /\ CheckRunCalls[1].arg.status = "completed"
                           /\ CheckRunCalls[1].arg.conclusion = "failure"
                           /\ CheckRunCalls[1].arg.title =
                                  "Jira issue " \o jl.key \o " does not exist"
                           /\ Contains(CheckRunCalls[1].arg.summary,
                                       "does not exist")
                           /\ \A n \in 1..Len(jlog) :
                                  jlog[n].op # "CreateComment"
                      ELSE /\ CheckRunCalls[1].arg.status = "queued"
                           /\ AfterIssueGet[2].op = "CreateComment"
                           /\ AfterIssueGet[2].arg.body =
                                  InternalErrorBody(
                                      IF jl.resp = "unreachable"
                                      THEN Unreachable
                                      ELSE RequestFailed("500"))
                           /\ Contains(AfterIssueGet[2].arg.body,
                                       IF jl.resp = "unreachable"
                                       THEN "not reachable"
                                       ELSE "status code 500"))
    /\ [][(IssueGetFailed \/ IssueGetFailed') => jira' = jira]_vars

C21_Witness ==
    /\ jpc = "done"
    /\ jl.resp = "500"
    /\ jl.ret = ""
    /\ Len(gh.checkRuns) = 1
    /\ \E n \in 1..Len(gh.comments) :
           gh.comments[n].Body = InternalErrorBody(RequestFailed("500"))


TransitionCalls == SelectSeq(jlog, LAMBDA e : e.op = "DoTransition")

\* the available transitions whose destination is target
TransitionsTo(target) ==
    {i \in 1..Len(jira.Transitions) : jira.Transitions[i].To = target}

\* C22: a Run executes at most one transition; the one it executes is, for
\* the rule that matched, the first available transition whose destination
\* is the target status of the rule, and after a listing that names such a
\* transition the Run goes on to execute it; when no available transition
\* has that destination the Run executes none and returns no error.
C22_AtMostOneTransition ==
    /\ [](/\ Len(TransitionCalls) <= 1
          /\ \A n \in 1..Len(TransitionCalls) :
                 /\ jl.rule # 0
                 /\ TransitionCalls[n].rule = jl.rule
                 /\ LET target == jl.jiraConfig.Rules[jl.rule].TransitionTo
                    IN  /\ TransitionsTo(target) # {}
                        /\ TransitionCalls[n].arg =
                               [key |-> jl.issue.Key,
                                id |-> jira.Transitions[
                                           FirstOf(TransitionsTo(target))].ID,
                                to |-> target]
          /\ (/\ jpc = "done"
              /\ jl.rule # 0
              /\ TransitionsTo(jl.jiraConfig.Rules[jl.rule].TransitionTo) = {})
             => (TransitionCalls = <<>> /\ jl.ret = ""))
    /\ [][(/\ jpc = "getTransitions"
           /\ jpc' # "getTransitions"
           /\ TransitionsTo(jl.jiraConfig.Rules[jl.rule].TransitionTo) # {})
          => \/ /\ jpc' = "doTransition"
                /\ jl'.transition =
                       jira.Transitions[
                           FirstOf(TransitionsTo(
                               jl.jiraConfig.Rules[jl.rule].TransitionTo))].ID
             \/ jpc' = "done" /\ jl'.ret = ""]_vars

\* the rule RuleClose has two transitions to its target: the first is taken
C22_Witness ==
    /\ jpc = "done"
    /\ jl.rule # 0
    /\ jl.jiraConfig.Rules[jl.rule] = RuleClose
    /\ TransitionsTo("Closed") = {2, 3}
    /\ Len(TransitionCalls) = 1
    /\ TransitionCalls[1].arg.id = "21"
    /\ jira.Status = "Closed"

UpdateCalls == SelectSeq(jlog, LAMBDA e : e.op = "UpdateIssue")

\* the issue as fetched carries the fix version the Run computed
Carried ==
    \E n \in DOMAIN jl.issue.FixVersions :
        jl.issue.FixVersions[n] = jl.fixVersion

\* a rule matched; it asks for the fix version, one was computed for the
\* release stream of the branch, and the issue as fetched does not carry it
ShouldAdd ==
    /\ jl.rule # 0
    /\ jl.jiraConfig.Rules[jl.rule].SetFixVersion
    /\ jl.branchConfig.Version # ""
    /\ jl.fixVersion # ""
    /\ ~Carried

\* C23: a Run calls UpdateIssue at most once, and only for a matched rule
\* that asks for the fix version, with a fix version computed for the
\* release stream of the branch that the issue as fetched does not carry:
\* the call adds that fix version, and it is made whenever these hold; the
\* fix versions of the issue change in no other way.
C23_FixVersionAddedOnlyWhenMissing ==
    /\ [](/\ Len(UpdateCalls) <= 1
          /\ UpdateCalls # <<>> =>
                 /\ ShouldAdd
                 /\ UpdateCalls[1].rule = jl.rule
                 /\ UpdateCalls[1].arg =
                        [key |-> jl.issue.Key, add |-> jl.fixVersion]
          /\ (ShouldAdd /\ jpc \notin {"rules", "setFixVersion"})
             => Len(UpdateCalls) = 1)
    /\ [][jira'.FixVersions # jira.FixVersions =>
              /\ ShouldAdd
              /\ jpc = "setFixVersion"
              /\ jira'.FixVersions = Append(jira.FixVersions, jl.fixVersion)]_vars

\* the rule RuleVersion matched an issue without the fix version of the
\* release branch: the fix version was added
C23_Witness ==
    /\ jpc = "done"
    /\ jl.rule # 0
    /\ jl.jiraConfig.Rules[jl.rule] = RuleVersion
    /\ jl.issue.FixVersions = <<>>
    /\ jl.fixVersion = "quay-v3.8.2"
    /\ Len(UpdateCalls) = 1
    /\ jira.FixVersions = <<"quay-v3.8.2">>

\* the Run came to the cleanup of the old comments
CleanupRan ==
    \E n \in 1..Len(jlog) : jlog[n].op \in {"Apps.Get", "ListComments"}

Wrapped(err) ==
    IF jl.wrap /\ err # "" THEN "failed to run jira check: " \o err ELSE err

\* C24: a Run that returns after a report whose cleanup ran returns what it
\* returns when the cleanup succeeds: the error of CreateCheckRun after a
\* check result, no error after an internal-error comment that was posted;
\* the error of the cleanup is in no result.
C24_CleanupFailureNotReturned ==
    (jpc = "done" /\ CleanupRan) =>
        /\ jl.after = "internal" => jl.ret = ""
        /\ jl.after = "return" => jl.ret = Wrapped(jl.checkErr)
        /\ ~Contains(jl.ret, "failed to list comments")
        /\ ~Contains(jl.ret, "failed to get current app")


\* C26: the handler of a created issue comment whose issue is not open, or
\* is not a pull request, returns at once without an error: it calls no
\* service (no PullRequests.Get), Run is not entered, and the check runs,
\* the comments and the issue tracker stay as they are, whatever the body
\* of the comment.
C26_CommentOnClosedOrPlainIssueIgnored ==
    /\ []((/\ jl.source = "issue_comment"
           /\ (jl.state # "open" \/ ~jl.isPR))
          => /\ jpc = "done"
             /\ jl.ret = ""
             /\ jlog = <<>>
             /\ jl.event = ""
             /\ jl.pr = NoPR
             /\ gh.checkRuns = <<>>)
    /\ [][(/\ jl'.source = "issue_comment"
           /\ (jl'.state # "open" \/ ~jl'.isPR))
          => (gh' = gh /\ jira' = jira /\ tags' = tags /\ synced' = synced)]_vars

C26_Witness ==
    /\ jpc = "done"
    /\ jl.source = "issue_comment"
    /\ jl.state = "closed"
    /\ jl.isPR
    /\ jl.body = "/recheck"
    /\ jl.ret = ""
    /\ jlog = <<>>


(***************************************************************************)
(* reactor.HandleCheckSuiteRerequest: the pull requests of a check suite   *)
(***************************************************************************)
\* the application of the check suite: this one, or another
SuiteApps == {275455, 15368}

\* the numbers of the pull requests of the check suite
SuitePullRequests == {<<>>, <<7>>, <<7, 8>>}

\* what PullRequests.Get can answer for a number
SuiteFetched(number) ==
    {[Number |-> number, Title |-> t, Merged |-> FALSE, Base |-> "release",
      HeadSHA |-> "h1"] : t \in {"Fix bug (PROJQUAY-123)", "Fix bug"}}

SuiteInit ==
    /\ cfg = CfgJira(JiraOf(<<RuleOpen, RuleClose, RuleAny>>))
    /\ SyncIdle
    /\ YInitIdle
    /\ synced = EmptyMap
    /\ tags = EmptyMap
    /\ remoteTags = [r \in {repoKey(Org, repo) : repo \in Repos} |->
                        IF r = "quay/quay" THEN <<"refs/tags/v3.8.1">>
                        ELSE <<>>]
    /\ nvpc = [c \in Callers |-> "idle"]
    /\ nv = [c \in Callers |-> NoCall]
    /\ ghost = NoGhost
    /\ hist = NoHistory
    /\ jpc = "idle"
    /\ jl = NoJl
    /\ gh \in {[comments |-> c, checkRuns |-> <<>>, time |-> 3] :
                  c \in {<<>>, OldComments}}
    /\ jira \in {NoTracker} \cup
                {[exists |-> TRUE, Status |-> s, FixVersions |-> <<>>,
                  Comments |-> <<>>, Transitions |-> Transitions] :
                    s \in {"To Do", "In Progress"}}
    /\ jlog = <<>>
    /\ cachedGithubUserLogin = ""
    /\ eh = NoDelivery
    /\ snap = NoSnapshot
    /\ mc = NoMatch
    /\ cs = NoSuite
    /\ mu = NoMutex

\* the loop: PullRequests.Get for the pull request at hand, then Run
\* (fetched: history, the numbers asked for)
SuitePullRequestsGet(ok, pr) ==
    /\ cs.pc = "get"
    /\ pr.Number = cs.prs[cs.i]
    /\ jlog' = Logged("PullRequests.Get", [number |-> cs.prs[cs.i]])
    /\ IF ok
       THEN LET n == RunEnter([NoJl EXCEPT !.source = "check_suite",
                                           !.wrap = TRUE],
                              "recheck",
                              ConfigurationJira(cfg, "quay", "quay"),
                              ConfigurationBranch(cfg, "quay", "quay",
                                                  pr.Base), pr)
            IN  /\ jpc' = n.pc
                /\ jl' = n.l
                /\ cs' = [cs EXCEPT !.pc = "run",
                                    !.fetched = Append(@, cs.prs[cs.i])]
       ELSE /\ cs' = [cs EXCEPT !.pc = "done",
                                !.fetched = Append(@, cs.prs[cs.i]),
                                !.ret = "failed to get pull request: "
                                            \o RemoteErr]
            /\ UNCHANGED <<jpc, jl>>
    /\ UNCHANGED <<synced, tags, gh, jira, cachedGithubUserLogin, restOfSuite>>

\* a loop that keeps the error of Run and goes on with the next pull request
SuiteRunReturnGoesOn ==
    /\ cs.pc = "run"
    /\ jpc = "done"
    /\ LET r == Append(cs.runs, [number |-> jl.pr.Number, event |-> jl.event])
           e == IF jl.ret # "" THEN jl.ret ELSE cs.ret
       IN  cs' = IF cs.i < Len(cs.prs)
                 THEN [cs EXCEPT !.runs = r, !.ret = e, !.i = @ + 1,
                                 !.pc = "get"]
                 ELSE [cs EXCEPT !.runs = r, !.ret = e, !.pc = "done"]
    /\ UNCHANGED <<synced, tags, jiraVars, restOfSuite>>

\* the loop after Run: return its error, or go on with the next pull request
\* (runs: history, the pull request and the event of each Run)
SuiteRunReturn ==
    /\ cs.pc = "run"
    /\ jpc = "done"
    /\ LET r == Append(cs.runs, [number |-> jl.pr.Number, event |-> jl.event])
       IN  cs' = IF jl.ret # ""
                 THEN [cs EXCEPT !.runs = r, !.ret = jl.ret, !.pc = "done"]
                 ELSE IF cs.i < Len(cs.prs)
                 THEN [cs EXCEPT !.runs = r, !.i = @ + 1, !.pc = "get"]
                 ELSE [cs EXCEPT !.runs = r, !.pc = "done"]
    /\ UNCHANGED <<synced, tags, jiraVars, restOfSuite>>

SuiteNext ==
    \/ \E app \in SuiteApps, prs \in SuitePullRequests :
           HandleCheckSuiteRerequest(app, prs)
    \/ \E ok \in BOOLEAN, pr \in SuiteFetched(7) \cup SuiteFetched(8) :
           SuitePullRequestsGet(ok, pr)
    \/ SuiteRunReturn
    \/ \E outcome \in {"ok", "404", "unreachable", "500"} : IssueGet(outcome)
    \/ \E ok \in BOOLEAN : CreateCheckRun(ok)
    \/ \E ok \in BOOLEAN : QueuedCheckRun(ok)
    \/ \E ok \in BOOLEAN : CreateComment(ok)
    \/ \E read \in {"", BotLogin, TornLogin} : GithubUserLogin(read)
    \/ \E ok \in BOOLEAN : AppsGet(ok)
    \/ \E ok \in BOOLEAN : ListComments(ok)
    \/ \E ok \in BOOLEAN : DeleteComment(ok)
    \/ NextVersionRuns
    \/ NextVersionStep
    \/ TagPushed
    \/ OtherRunStores
    \/ OtherRunStored
    \/ MatchRules
    \/ \E ok \in BOOLEAN : SetFixVersion(ok)
    \/ \E ok \in BOOLEAN : AddComment(ok)
    \/ \E ok \in BOOLEAN : GetTransitions(ok)
    \/ \E ok \in BOOLEAN : DoTransition(ok)

SpecSuite == SuiteInit /\ [][SuiteNext]_vars

\* the recheck Runs of the pull requests numbers, in their order
Rechecks(numbers) ==
    [n \in 1..Len(numbers) |-> [number |-> numbers[n], event |-> "recheck"]]

PullRequestGets ==
    SelectSeq(jlog, LAMBDA e : e.op = "PullRequests.Get")

\* C25 as stated: a check suite of another application makes no call and
\* enters no Run; for one of this application, when the handler returns
\* every pull request of the check suite was fetched again and Run was
\* entered for it with the recheck event.
C25_EveryPullRequestRechecked ==
    cs.pc = "done" =>
        IF cs.app # cfg.AppID
        THEN jlog = <<>> /\ cs.fetched = <<>> /\ cs.runs = <<>> /\ cs.ret = ""
        ELSE /\ cs.fetched = cs.prs
             /\ cs.runs = Rechecks(cs.prs)

\* C25, amended: a check suite of another application makes no call and
\* enters no Run; for one of this application the pull requests are fetched
\* again in their order, and Run is entered with the recheck event for
\* each one fetched, up to the first whose fetch or Run fails: the handler
\* returns that error and leaves the later pull requests alone; when it
\* returns no error every pull request was fetched and checked.
C25_PullRequestsRecheckedUntilFailure ==
    /\ cs.app # cfg.AppID =>
           /\ cs.pc \in {"idle", "done"}
           /\ jlog = <<>> /\ jpc = "idle"
           /\ cs.fetched = <<>> /\ cs.runs = <<>> /\ cs.ret = ""
    /\ (cs.app = cfg.AppID /\ cs.pc # "idle") =>
           /\ Len(cs.fetched) <= Len(cs.prs)
           /\ cs.fetched = SubSeq(cs.prs, 1, Len(cs.fetched))
           /\ Len(PullRequestGets) = Len(cs.fetched)
           /\ \A n \in 1..Len(cs.fetched) :
                  PullRequestGets[n].arg.number = cs.fetched[n]
           /\ Len(cs.runs) <= Len(cs.fetched)
           /\ cs.runs = Rechecks(SubSeq(cs.prs, 1, Len(cs.runs)))
           /\ cs.pc = "done" =>
                  IF cs.ret = ""
                  THEN cs.fetched = cs.prs /\ cs.runs = Rechecks(cs.prs)
                  ELSE /\ cs.fetched # <<>>
                       /\ Len(cs.runs) \in {Len(cs.fetched) - 1,
                                            Len(cs.fetched)}
                       /\ Len(cs.runs) = Len(cs.fetched) =>
                              (jl.ret = cs.ret /\ jl.pr.Number =
                                   cs.fetched[Len(cs.fetched)])

\* both pull requests of a check suite of this application were checked
C25_Witness ==
    /\ cs.pc = "done"
    /\ cs.app = cfg.AppID
    /\ cs.prs = <<7, 8>>
    /\ cs.ret = ""
    /\ cs.runs = Rechecks(<<7, 8>>)
    /\ Len(gh.checkRuns) = 2
    /\ jira.Status = "In Progress"


(***************************************************************************)
(* Properties of a sync whose reads fail                                   *)
(***************************************************************************)
\* C27: a sync whose GetRef of the source or of the destination failed
\* makes no further call to the hosting service, none of them UpdateRef,
\* stores an Error status for the destination whose message is the wrapped
\* error, and returns that error; the step in which the read fails moves no
\* branch.
C27_FailedReadRecordsError ==
    /\ [](\A w \in Workers :
            /\ (/\ loc[w].log # <<>>
                /\ pc[w] \in {"statusErr", "next"}
                /\ ~ReadsAnswered(w))
               => /\ UpdateRefCalls(loc[w].log) = <<>>
                  /\ Len(loc[w].log) = IF loc[w].srcSHA = "" THEN 1 ELSE 2
                  /\ loc[w].err =
                         (IF loc[w].srcSHA = ""
                          THEN "failed to get source ref: "
                          ELSE "failed to get destination ref: ")
                         \o RemoteErr
            /\ (SyncReturned(w) /\ ~ReadsAnswered(w))
               => /\ loc[w].wrote.Status = "Error"
                  /\ loc[w].wrote.Message = loc[w].err
                  /\ StatusOf(status, heap, String(loc[w].dest)) =
                         loc[w].wrote
                  /\ loc[w].outcomes[Len(loc[w].outcomes)] =
                         [dest |-> String(loc[w].dest), err |-> loc[w].err])
    /\ [][\A w \in Workers :
            (pc[w] \in {"getSrc", "getDst"} /\ pc'[w] = "statusErr")
            => heads' = heads]_vars

\* the source was read, the read of the destination failed
C27_Witness ==
    \E w \in Workers :
        /\ SyncReturned(w)
        /\ loc[w].srcSHA = "c2"
        /\ loc[w].dstSHA = ""
        /\ loc[w].err = "failed to get destination ref: remote error"
        /\ StatusOf(status, heap, "quay/quay:release").Status = "Error"
        /\ Len(loc[w].log) = 2


(***************************************************************************)
(* The loop of main: a pass over the configured pairs every five minutes   *)
(***************************************************************************)
\* one step of the loop of main
PeriodicStep ==
    \/ PeriodicPass
    \/ SyncStart(Periodic)
    \/ HandlerReturn(Periodic)
    \/ GetSrcOk(Periodic)
    \/ GetSrcFail(Periodic)
    \/ GetDstOk(Periodic)
    \/ GetDstFail(Periodic)
    \/ UpdateRef(Periodic)
    \/ UpdateRefFail(Periodic)
    \/ StatusErr(Periodic)
    \/ StatusOk(Periodic)

\* the loop of main while branches move and no delivery arrives
PeriodicNext ==
    \/ \E k \in BranchKeys : SourcePush(k)
    \/ \E k \in BranchKeys : DestDiverge(k)
    \/ PeriodicStep

\* the loop of main runs in its own goroutine: time.Sleep returns, and
\* every call to the hosting service returns (with an answer or with an
\* error)
PeriodicFair ==
    /\ WF_vars(PeriodicPass)
    /\ WF_vars(SyncStart(Periodic))
    /\ WF_vars(HandlerReturn(Periodic))
    /\ WF_vars(GetSrcOk(Periodic) \/ GetSrcFail(Periodic))
    /\ WF_vars(GetDstOk(Periodic) \/ GetDstFail(Periodic))
    /\ WF_vars(UpdateRef(Periodic) \/ UpdateRefFail(Periodic))
    /\ WF_vars(StatusErr(Periodic))
    /\ WF_vars(StatusOk(Periodic))

SpecPeriodic == SyncInitSpec /\ [][PeriodicNext]_vars /\ PeriodicFair

\* the pairs of the configurations
AllPairs ==
    UNION {{PeriodicPairs(c)[i] : i \in 1..Len(PeriodicPairs(c))} :
               c \in Configs}

Configured(pair) ==
    \E i \in 1..Len(PeriodicPairs(cfg)) : PeriodicPairs(cfg)[i] = pair

\* the loop of main is in sync(pair.to, pair.from)
PeriodicSyncs(pair) ==
    /\ pc[Periodic] = "getSrc"
    /\ loc[Periodic].dest = pair.to
    /\ loc[Periodic].src = pair.from

\* C28: a pass of the loop of main starts with all configured pairs to do,
\* takes them one by one in their order, calling sync for each whatever the
\* sync before returned, and is over only when none is left; and, the calls
\* to the hosting service returning, the loop calls sync for every
\* configured pair again and again and sleeps again and again, with no
\* delivery of a webhook at all.
C28_PeriodicLoopSyncsEveryPair ==
    /\ [][/\ (pc[Periodic] = "sleep" /\ pc'[Periodic] # "sleep")
             => loc'[Periodic].queue = PeriodicPairs(cfg)
          /\ (pc[Periodic] # "sleep" /\ pc'[Periodic] = "sleep")
             => loc[Periodic].queue = <<>>
          /\ (/\ pc[Periodic] # "sleep"
              /\ loc'[Periodic].queue # loc[Periodic].queue)
             => /\ loc'[Periodic].queue = Tail(loc[Periodic].queue)
                /\ pc'[Periodic] = "getSrc"
                /\ loc'[Periodic].dest = Head(loc[Periodic].queue).to
                /\ loc'[Periodic].src = Head(loc[Periodic].queue).from]_vars
    /\ \A pair \in AllPairs : []<>(Configured(pair) => PeriodicSyncs(pair))
    /\ []<>(pc[Periodic] = "sleep")

\* the loop goes on with the second pair after the sync of the first
\* failed, in a pass after one in which both were synced
C28_Witness ==
    /\ Len(PeriodicPairs(cfg)) = 2
    /\ PeriodicSyncs(PeriodicPairs(cfg)[2])
    /\ loc[Periodic].queue = <<>>
    /\ StatusOf(status, heap, String(PeriodicPairs(cfg)[1].to)).Status = "Error"
    /\ StatusOf(status, heap, String(PeriodicPairs(cfg)[2].to)).Status = "Synced"
    /\ \A w \in Workers : pc[w] = "idle"


(***************************************************************************)
(* Properties of the entries of the status informer                        *)
(***************************************************************************)
\* the places of the entries for a branch
EntriesOf(branches, branch) ==
    {i \in 1..Len(branches) : branches[i].Branch = branch}

\* C29: the StatusInformer never holds two entries for a branch, and every
\* entry has its own sync status; an UpdateBranchSyncStatus call for a
\* branch without entry appends one entry, for that branch, and a call for
\* a branch with an entry writes the sync status of that entry and adds
\* none; every call leaves all other entries and their sync statuses as
\* they are, and no step removes or moves an entry.
C29_OneEntryPerBranch ==
    /\ [](/\ \A b \in StatusBranches :
                Cardinality(EntriesOf(status, b)) <= 1
          /\ \A i \in 1..Len(status) :
                /\ status[i].Branch \in StatusBranches
                /\ status[i].SyncStatus \in 1..Len(heap)
                /\ \A j \in 1..Len(status) :
                       status[j].SyncStatus = status[i].SyncStatus => j = i)
    /\ [][/\ Len(status) <= Len(status')
          /\ \A i \in 1..Len(status) : status'[i] = status[i]
          /\ (status' # status \/ heap' # heap) =>
                 \E b \in StatusBranches :
                     /\ Len(status') =
                            Len(status) +
                                (IF EntriesOf(status, b) = {} THEN 1 ELSE 0)
                     /\ \E i \in EntriesOf(status', b) :
                            /\ EntriesOf(status, b) \in {{}, {i}}
                            /\ heap'[status'[i].SyncStatus].LastHeartbeatTime
                                   = now
                            /\ \A k \in 1..Len(status') :
                                   k # i =>
                                       heap'[status'[k].SyncStatus] =
                                           heap[status[k].SyncStatus]]_vars

\* two branches have an entry each; the entry of the first was updated after
\* the second was created
C29_Witness ==
    /\ Len(status) = 2
    /\ status[1].Branch = "quay/clair:stable"
    /\ status[2].Branch = "quay/quay:release"
    /\ heap[status[1].SyncStatus].Status = "Error"
    /\ heap[status[1].SyncStatus].LastTransitionTime = 2
    /\ heap[status[1].SyncStatus].LastHeartbeatTime = 3
    /\ heap[status[2].SyncStatus].LastTransitionTime = 2
    /\ heap[status[2].SyncStatus].LastHeartbeatTime = 2


(***************************************************************************)
(* StatusInformer.GetStatus: the snapshot and the fix versions put on it   *)
(***************************************************************************)
\* GetStatus lines 89-92: the branches with a version, in the order of the
\* configuration
RECURSIVE VersionedBranchesLoop(_, _, _)
VersionedBranchesLoop(c, i, j) ==
    IF i > Len(c.Repositories) THEN <<>>
    ELSE LET repo == c.Repositories[i]
         IN  IF j > Len(repo.Branches) THEN VersionedBranchesLoop(c, i + 1, 1)
             ELSE LET branch == repo.Branches[j]
                      rest == VersionedBranchesLoop(c, i, j + 1)
                  IN  IF branch.Version = "" THEN rest
                      ELSE <<[Owner |-> repo.Owner, Repo |-> repo.Repo,
                              Name |-> branch.Name, Version |-> branch.Version,
                              Prefix |-> repo.Jira.FixVersionPrefix]>>
                           \o rest

VersionedBranches(c) == VersionedBranchesLoop(c, 1, 1)

\* Status.SetFixVersion on the entries of a Status
StatusSetFixVersion(branches, branch, fixVersion) ==
    LET i == FindBranch(branches, branch, 1)
    IN  IF i # 0 THEN [branches EXCEPT ![i].FixVersion = fixVersion]
        ELSE Append(branches, [Branch |-> branch, FixVersion |-> fixVersion,
                               SyncStatus |-> NilPtr])

\* a snapshot that is the Status of the informer itself: its slice has the
\* array of the informer
statusSnapshotShared(branches) == [array |-> "store", Branches |-> branches]

\* statusSnapshot: the Status returned has an array of its own
statusSnapshot(branches) == [array |-> "copy", Branches |-> DeepCopy(branches)]

\* GetStatus line 88, under the mutex (todo: the branches the loop has yet
\* to look at)
GetStatusSnapshot ==
    /\ ~snap.taken
    /\ snap' = [taken |-> TRUE, Branches |-> statusSnapshot(status).Branches,
                seen |-> <<>>, array |-> statusSnapshot(status).array,
                todo |-> VersionedBranches(cfg)]
    /\ UNCHANGED <<status, heap, now, restOfStatus>>

\* the caller of NextVersion that is GetStatus
StatusCaller == "c2"

\* GetStatus line 94: NextVersion is called for the next branch with a
\* version; its steps are NVInitFetch, NVInitFail, NVAddRefs and NVRead
GetStatusCall ==
    /\ snap.taken
    /\ snap.todo # <<>>
    /\ nv[StatusCaller].status = "none"
    /\ NVCall(StatusCaller, Head(snap.todo).Repo, Head(snap.todo).Version)
    /\ UNCHANGED hist

\* GetStatus lines 95-102: NextVersion has returned; unless it failed,
\* SetFixVersion on the snapshot; a write to an element of the snapshot is a
\* write to the informer's element when they share the array
GetStatusNextVersion ==
    /\ snap.taken
    /\ snap.todo # <<>>
    /\ nvpc[StatusCaller] = "idle"
    /\ nv[StatusCaller].status \in {"ok", "error"}
    /\ nv' = [nv EXCEPT ![StatusCaller] = NoCall]
    /\ LET b == Head(snap.todo)
           name == b.Owner \o "/" \o b.Repo \o ":" \o b.Name
           fixVersion == b.Prefix \o nv[StatusCaller].result
           i == FindBranch(snap.Branches, name, 1)
       IN  IF nv[StatusCaller].status = "error"
           THEN /\ snap' = [snap EXCEPT !.todo = Tail(@)]
                /\ UNCHANGED status
           ELSE /\ snap' = [snap EXCEPT
                              !.todo = Tail(@),
                              !.Branches =
                                  StatusSetFixVersion(@, name, fixVersion)]
                /\ status' = IF snap.array = "store" /\ i # 0
                                /\ i <= Len(status)
                             THEN [status EXCEPT ![i].FixVersion = fixVersion]
                             ELSE status
    /\ UNCHANGED <<heap, now, synced, tags, remoteTags, nvpc, ghost, hist,
                   yVars, cfg, heads, pc, loc, jiraVars, eh, mc, cs, mu>>

\* TagInformer.NextVersion between its call by GetStatus and its return
GetStatusNextVersionRuns ==
    \/ GetStatusCall
    \/ NVInitFetch(StatusCaller) /\ UNCHANGED hist
    \/ NVInitFail(StatusCaller) /\ UNCHANGED hist
    \/ NVAddRefs(StatusCaller) /\ UNCHANGED hist
    \/ NVRead(StatusCaller) /\ UNCHANGED hist

\* GetStatus line 105: the Status is returned to the handler of /status
GetStatusReturn ==
    /\ snap.taken
    /\ snap.todo = <<>>
    /\ snap' = NoSnapshot
    /\ UNCHANGED <<status, heap, now, restOfStatus>>

GetStatusNext ==
    \/ Tick
    \/ \E branch \in StatusBranches, in \in StatusInputs :
          StatusUpdate(branch, in.state, in.message)
    \/ GetStatusSnapshot
    \/ GetStatusNextVersionRuns
    \/ GetStatusNextVersion
    \/ GetStatusReturn
    \/ TagPushed

SpecGetStatus == StatusInit /\ [][GetStatusNext]_vars

\* C30: no step of GetStatus (the snapshot, a fix version put on an entry of
\* the snapshot, an entry added to it for a branch without sync status, the
\* return) changes the entries of the StatusInformer or the states,
\* messages and times they point to; no entry of the StatusInformer ever
\* holds a fix version.
C30_GetStatusLeavesStoreAlone ==
    /\ [][snap' # snap => (status' = status /\ heap' = heap)]_vars
    /\ [](\A i \in 1..Len(status) : status[i].FixVersion = "")

\* GetStatus has put the fix version on the entry of the release branch,
\* which has a sync status, after the entry of another branch
C30_Witness ==
    /\ snap.taken
    /\ snap.todo = <<>>
    /\ Len(status) = 2
    /\ Len(snap.Branches) = 2
    /\ snap.Branches[2] =
           [Branch |-> "quay/quay:release", FixVersion |-> "3.8.0",
            SyncStatus |-> 2]
    /\ status[2] =
           [Branch |-> "quay/quay:release", FixVersion |-> "",
            SyncStatus |-> 2]
    /\ heap[2].LastHeartbeatTime = 2


(***************************************************************************)
(* The two mutexes: every Lock and Unlock of the TagInformer and of the    *)
(* StatusInformer, and the remote calls made between them                  *)
(***************************************************************************)
restOfMutex ==
    <<remoteTags, nvpc, nv, ghost, hist, yVars, cfg, now, pc, loc, jiraVars,
      eh, snap, mc, cs>>

\* what the steps of a goroutine between the functions of Run leave alone
restOfMutexRun ==
    <<synced, tags, remoteTags, nvpc, nv, ghost, hist, yVars, cfg, heads,
      status, heap, now, pc, loc, gh, jira, cachedGithubUserLogin, eh, snap,
      mc, cs>>

\* the functions that lock ti.mutex and those that lock si.mutex
TagFunctions == {"hasSynced", "addRefs", "NextVersion", "InvalidateCache"}
StatusFunctions == {"statusSnapshot", "UpdateBranchSyncStatus"}

\* what two goroutines run: reactor.sync for the release branch, GetStatus,
\* HandleTagPush, and (MuRun) Jira.Run for a pull request to the release
\* branch
MutexOps == {"sync", "GetStatus", "HandleTagPush"}

\* the pull request HandlePullRequestClose is called for
MuPR ==
    [Number |-> 7, Title |-> "Fix bug (PROJQUAY-123)", Merged |-> TRUE,
     Base |-> "release", HeadSHA |-> "h1"]

\* the positions of Run at a call of the hosting service or of the issue
\* tracker
RunRemoteCalls ==
    {"issueGet", "createCheckRun", "queuedCheckRun", "createComment",
     "appsGet", "listComments", "deleteLoop", "setFixVersion", "addComment",
     "getTransitions", "doTransition"}

MuDest == [Owner |-> "quay", Repo |-> "quay", Branch |-> "release"]
MuSrc == [Owner |-> "quay", Repo |-> "quay", Branch |-> "master"]
MuStream == "3.8"

\* a mutex that is never unlocked
UnlockNever(holder, g) == holder

\* defer mutex.Unlock() at the return of the function that locked it
Unlock(holder, g) == IF holder = g THEN "" ELSE holder

\* the goroutine calls a function that starts with mutex.Lock()
Enter(m, g, f) == [m EXCEPT !.at[g].pc = f, !.at[g].phase = "lock"]

\* the goroutine sends a request to the hosting service or the issue tracker
Remote(m, g, call) == [m EXCEPT !.at[g].pc = call, !.at[g].phase = "remote"]

\* the handler returns
Done(m, g) == [m EXCEPT !.at[g].pc = "", !.at[g].phase = "idle"]

\* NextVersion returns to its caller: GetStatus returns, Run goes on
ReturnsFromNextVersion(m, g) ==
    IF m.at[g].op = "Run"
    THEN [m EXCEPT !.at[g].pc = "Run", !.at[g].phase = "returned"]
    ELSE Done(m, g)

Held(g, f) == mu.at[g].phase = "held" /\ mu.at[g].pc = f
InFlight(g, call) == mu.at[g].phase = "remote" /\ mu.at[g].pc = call

\* the goroutine is inside Run, outside NextVersion
InRun(g) == mu.at[g].phase = "run"

\* the goroutine has a remote call in flight
InRemoteCall(g) ==
    \/ mu.at[g].phase = "remote"
    \/ InRun(g) /\ jpc \in RunRemoteCalls

MutexInit ==
    /\ TagInit
    /\ YInitIdle
    /\ cfg = CfgJira(JiraOf(<<RuleClose, RuleAny>>))
    /\ heads = [k \in BranchKeys |->
                   IF k = "quay/quay:master" THEN "c2" ELSE "c1"]
    /\ status = <<>>
    /\ heap = <<>>
    /\ now = 1
    /\ pc = [p \in Procs |-> IF p = Periodic THEN "sleep" ELSE "idle"]
    /\ loc = [p \in Procs |-> NoLocals]
    /\ jpc = "idle"
    /\ jl = NoJl
    /\ gh = [comments |-> OldComments, checkRuns |-> <<>>, time |-> 3]
    /\ jira = [exists |-> TRUE, Status |-> "To Do", FixVersions |-> <<>>,
               Comments |-> <<>>, Transitions |-> Transitions]
    /\ jlog = <<>>
    /\ cachedGithubUserLogin = ""
    /\ RestIdle

MuStart(g, op) ==
    /\ mu.at[g].phase = "idle"
    /\ LET m == [mu EXCEPT !.at[g] = [NoGoroutine EXCEPT !.op = op]]
       IN  mu' = CASE op = "sync" -> Remote(m, g, "GetRef.src")
                   [] op = "GetStatus" -> Enter(m, g, "statusSnapshot")
                   [] op = "HandleTagPush" -> Enter(m, g, "InvalidateCache")
    /\ UNCHANGED <<synced, tags, heads, status, heap, restOfMutex>>

\* HandlePullRequestClose in the goroutine g: Run up to its first call of a
\* service (one Run in a behaviour)
MuRun(g) ==
    /\ mu.at[g].phase = "idle"
    /\ jpc = "idle"
    /\ LET n == RunEnter([NoJl EXCEPT !.source = "pull_request"], "closed",
                         ConfigurationJira(cfg, "quay", "quay"),
                         ConfigurationBranch(cfg, "quay", "quay", MuPR.Base),
                         MuPR)
       IN  jpc' = n.pc /\ jl' = n.l
    /\ mu' = [mu EXCEPT !.at[g] = [NoGoroutine EXCEPT !.op = "Run",
                                                      !.pc = "Run",
                                                      !.phase = "run"]]
    /\ UNCHANGED <<jlog, restOfMutexRun>>

\* Run line 308: the goroutine calls NextVersion for the version of the
\* branch (the release branch has one), which starts with hasSynced
MuRunNextVersion(g) ==
    /\ InRun(g)
    /\ jpc = "nextVersion"
    /\ jl.branchConfig.Version # ""
    /\ mu' = Enter(mu, g, "hasSynced")
    /\ UNCHANGED <<synced, tags, heads, status, heap, restOfMutex>>

\* Run lines 309-313: NextVersion has returned
MuRunNextVersionReturn(g) ==
    /\ mu.at[g].phase = "returned"
    /\ jpc = "nextVersion"
    /\ LET n == IF mu.at[g].err # ""
                THEN Ret(jl, "failed to get next version for quay/quay:"
                                 \o jl.branchConfig.Name \o ": "
                                 \o mu.at[g].err)
                ELSE [pc |-> "rules",
                      l |-> [jl EXCEPT
                               !.fixVersion = jl.jiraConfig.FixVersionPrefix
                                                  \o mu.at[g].result,
                               !.next = 1]]
       IN  jpc' = n.pc /\ jl' = n.l
    /\ mu' = [mu EXCEPT !.at[g].phase = "run", !.at[g].err = "",
                        !.at[g].result = ""]
    /\ UNCHANGED <<jlog, restOfMutexRun>>

\* Run has returned (or its goroutine has panicked): the handler is over
MuRunReturn(g) ==
    /\ InRun(g)
    /\ jpc \in {"done", "panic"}
    /\ mu' = Done(mu, g)
    /\ UNCHANGED <<synced, tags, heads, status, heap, restOfMutex>>

\* mutex.Lock(): the goroutine goes on when the mutex is free
MuLock(g) ==
    /\ mu.at[g].phase = "lock"
    /\ IF mu.at[g].pc \in TagFunctions
       THEN /\ mu.tag = ""
            /\ mu' = [mu EXCEPT !.tag = g, !.at[g].phase = "held"]
       ELSE /\ mu.status = ""
            /\ mu' = [mu EXCEPT !.status = g, !.at[g].phase = "held"]
    /\ UNCHANGED <<synced, tags, heads, status, heap, restOfMutex>>

\* reactor.sync: Git.GetRef of the source answers
MuGetRefSrc(g, ok) ==
    /\ InFlight(g, "GetRef.src")
    /\ mu' = IF ok
             THEN Remote([mu EXCEPT !.at[g].srcSHA = heads[String(MuSrc)]],
                         g, "GetRef.dst")
             ELSE Enter([mu EXCEPT !.at[g].err =
                            "failed to get source ref: " \o RemoteErr],
                        g, "UpdateBranchSyncStatus")
    /\ UNCHANGED <<synced, tags, heads, status, heap, restOfMutex>>

\* reactor.sync: Git.GetRef of the destination answers
MuGetRefDst(g, ok) ==
    /\ InFlight(g, "GetRef.dst")
    /\ mu' = IF ~ok
             THEN Enter([mu EXCEPT !.at[g].err =
                            "failed to get destination ref: " \o RemoteErr],
                        g, "UpdateBranchSyncStatus")
             ELSE LET m == [mu EXCEPT !.at[g].dstSHA = heads[String(MuDest)]]
                  IN  IF SyncNeedsUpdate(heads[String(MuDest)],
                                         mu.at[g].srcSHA)
                      THEN Remote(m, g, "UpdateRef")
                      ELSE Enter(m, g, "UpdateBranchSyncStatus")
    /\ UNCHANGED <<synced, tags, heads, status, heap, restOfMutex>>

\* reactor.sync: Git.UpdateRef answers
MuUpdateRef(g, ok) ==
    /\ InFlight(g, "UpdateRef")
    /\ LET accepted == ok /\ UpdateRefAccepted(heads, String(MuDest),
                                               mu.at[g].srcSHA, SyncForce)
       IN  /\ heads' = IF accepted
                       THEN [heads EXCEPT ![String(MuDest)] = mu.at[g].srcSHA]
                       ELSE heads
           /\ mu' = Enter([mu EXCEPT !.at[g].err =
                              IF accepted THEN ""
                              ELSE "failed to update " \o String(MuDest)
                                       \o ": "
                                       \o (IF ok THEN NotFastForward
                                           ELSE RemoteErr)],
                          g, "UpdateBranchSyncStatus")
    /\ UNCHANGED <<synced, tags, status, heap, restOfMutex>>

\* UpdateBranchSyncStatus, between Lock and the deferred Unlock
MuUpdateBranchSyncStatus(g) ==
    /\ Held(g, "UpdateBranchSyncStatus")
    /\ LET u == IF mu.at[g].err # ""
                THEN UpdateBranchSyncStatus(status, heap, String(MuDest),
                                            "Error", mu.at[g].err, now)
                ELSE UpdateBranchSyncStatus(
                         status, heap, String(MuDest), "Synced",
                         "synched from " \o String(MuSrc) \o ", commit: "
                             \o mu.at[g].srcSHA, now)
       IN  status' = u.status /\ heap' = u.heap
    /\ mu' = Done([mu EXCEPT !.status = Unlock(@, g)], g)
    /\ UNCHANGED <<synced, tags, heads, restOfMutex>>

\* statusSnapshot, between Lock and the deferred Unlock; GetStatus goes on
\* with NextVersion for the release branch
MuStatusSnapshot(g) ==
    /\ Held(g, "statusSnapshot")
    /\ mu' = Enter([mu EXCEPT !.status = Unlock(@, g)], g, "hasSynced")
    /\ UNCHANGED <<synced, tags, heads, status, heap, restOfMutex>>

\* hasSynced, between Lock and the deferred Unlock; NextVersion goes on with
\* init or with its own Lock
MuHasSynced(g) ==
    /\ Held(g, "hasSynced")
    /\ LET m == [mu EXCEPT !.tag = Unlock(@, g)]
       IN  mu' = IF hasSynced(synced, Org, MuDest.Repo)
                 THEN Enter(m, g, "NextVersion")
                 ELSE Remote(m, g, "ListMatchingRefs")
    /\ UNCHANGED <<synced, tags, heads, status, heap, restOfMutex>>

\* init: Git.ListMatchingRefs answers; on an error NextVersion returns it,
\* GetStatus skips the branch and Run returns
MuListMatchingRefs(g, ok) ==
    /\ InFlight(g, "ListMatchingRefs")
    /\ mu' = IF ok
             THEN Enter([mu EXCEPT !.at[g].refs =
                            remoteTags[repoKey(Org, MuDest.Repo)]],
                        g, "addRefs")
             ELSE ReturnsFromNextVersion([mu EXCEPT !.at[g].err =
                               "failed to list tags: " \o RemoteErr], g)
    /\ UNCHANGED <<synced, tags, heads, status, heap, restOfMutex>>

\* addRefs, between Lock and the deferred Unlock
MuAddRefs(g) ==
    /\ Held(g, "addRefs")
    /\ tags' = addRefsTags(tags, Org, MuDest.Repo, mu.at[g].refs)
    /\ synced' = addRefsSynced(synced, Org, MuDest.Repo)
    /\ mu' = Enter([mu EXCEPT !.tag = Unlock(@, g), !.at[g].refs = <<>>],
                   g, "NextVersion")
    /\ UNCHANGED <<heads, status, heap, restOfMutex>>

\* NextVersion lines 132-137, between Lock and the deferred Unlock; GetStatus
\* returns, Run goes on with the matched rule
MuNextVersion(g) ==
    /\ Held(g, "NextVersion")
    /\ LET m == [mu EXCEPT !.tag = Unlock(@, g),
                           !.at[g].result =
                               NextVersionRead(tags, Org, MuDest.Repo,
                                               MuStream)]
       IN  mu' = ReturnsFromNextVersion(m, g)
    /\ UNCHANGED <<synced, tags, heads, status, heap, restOfMutex>>

\* InvalidateCache, between Lock and the deferred Unlock
MuInvalidateCache(g) ==
    /\ Held(g, "InvalidateCache")
    /\ synced' = InvalidateCache(synced, tags).synced
    /\ tags' = InvalidateCache(synced, tags).tags
    /\ mu' = Done([mu EXCEPT !.tag = Unlock(@, g)], g)
    /\ UNCHANGED <<heads, status, heap, restOfMutex>>

MutexNext ==
    \/ \E g \in Goroutines, op \in MutexOps : MuStart(g, op)
    \/ \E g \in Goroutines : MuLock(g)
    \/ \E g \in Goroutines, ok \in BOOLEAN : MuGetRefSrc(g, ok)
    \/ \E g \in Goroutines, ok \in BOOLEAN : MuGetRefDst(g, ok)
    \/ \E g \in Goroutines, ok \in BOOLEAN : MuUpdateRef(g, ok)
    \/ \E g \in Goroutines : MuUpdateBranchSyncStatus(g)
    \/ \E g \in Goroutines : MuStatusSnapshot(g)
    \/ \E g \in Goroutines : MuHasSynced(g)
    \/ \E g \in Goroutines, ok \in BOOLEAN : MuListMatchingRefs(g, ok)
    \/ \E g \in Goroutines : MuAddRefs(g)
    \/ \E g \in Goroutines : MuNextVersion(g)
    \/ \E g \in Goroutines : MuInvalidateCache(g)
    \/ \E g \in Goroutines : MuRun(g)
    \/ \E g \in Goroutines : MuRunNextVersion(g)
    \/ \E g \in Goroutines : MuRunNextVersionReturn(g)
    \/ \E g \in Goroutines : MuRunReturn(g)
    \/ \E outcome \in {"ok", "404", "unreachable", "500"} : IssueGet(outcome)
    \/ \E ok \in BOOLEAN : CreateCheckRun(ok)
    \/ \E ok \in BOOLEAN : QueuedCheckRun(ok)
    \/ \E ok \in BOOLEAN : CreateComment(ok)
    \/ \E read \in {"", BotLogin, TornLogin} : GithubUserLogin(read)
    \/ \E ok \in BOOLEAN : AppsGet(ok)
    \/ \E ok \in BOOLEAN : ListComments(ok)
    \/ \E ok \in BOOLEAN : DeleteComment(ok)
    \/ MatchRules
    \/ \E ok \in BOOLEAN : SetFixVersion(ok)
    \/ \E ok \in BOOLEAN : AddComment(ok)
    \/ \E ok \in BOOLEAN : GetTransitions(ok)
    \/ \E ok \in BOOLEAN : DoTransition(ok)

SpecMutex == MutexInit /\ [][MutexNext]_vars

\* the mutex a goroutine waits for
Wanted(g) == IF mu.at[g].pc \in TagFunctions THEN mu.tag ELSE mu.status

\* C31: a goroutine with a remote call in flight (get-ref, update-ref, tag
\* listing, a call to the issue tracker or for the check run) holds neither
\* mutex; and while a goroutine is in a remote call, however long, the mutex
\* another goroutine asks for is free or held by a goroutine that is inside
\* the locked function, not in a remote call.
C31_NoMutexHeldDuringRemoteCall ==
    /\ \A g \in Goroutines :
           InRemoteCall(g) => (mu.tag # g /\ mu.status # g)
    /\ \A g \in Goroutines :
           /\ mu.tag = g => (mu.at[g].phase = "held"
                             /\ mu.at[g].pc \in TagFunctions)
           /\ mu.status = g => (mu.at[g].phase = "held"
                                /\ mu.at[g].pc \in StatusFunctions)
    /\ \A g, h \in Goroutines :
           (g # h /\ InRemoteCall(g) /\ mu.at[h].phase = "lock")
               => Wanted(h) = ""

\* the tag listing of one goroutine is in flight while the other invalidates
\* the cache under the mutex
C31_Witness ==
    /\ InFlight("g1", "ListMatchingRefs")
    /\ mu.at["g1"].op = "GetStatus"
    /\ Held("g2", "InvalidateCache")
    /\ mu.tag = "g2"
    /\ mu.status = ""


(***************************************************************************)
(* NextVersion against InvalidateCache                                     *)
(***************************************************************************)
\* C32: under any interleaving of NextVersion and InvalidateCache, a
\* NextVersion call that returns a version returns stream.(m+1), m the
\* largest patch number of the stream in the listing of the repository, and
\* stream.0 only when the listing holds no tag of the stream.
C32_NextVersionIsListingMaxPlusOne ==
    \A c \in Callers :
        (Returned(c) /\ nv[c].status = "ok") =>
            nv[c].result
                = SingleCall(remoteTags[repoKey(nv[c].org, nv[c].repo)],
                             nv[c].xy)


(***************************************************************************)
(* A tag listing in flight across InvalidateCache                          *)
(***************************************************************************)
\* History of a call: stale, the cache was invalidated after the call got
\* its listing and before it has merged it
NotStale == [c \in Callers |-> [stale |-> FALSE]]

StaleInit ==
    /\ synced = EmptyMap
    /\ tags = EmptyMap
    /\ remoteTags = [r \in {repoKey(Org, repo) : repo \in Repos} |-> <<>>]
    /\ nvpc = [c \in Callers |-> "idle"]
    /\ nv = [c \in Callers |-> NoCall]
    /\ ghost = NoGhost
    /\ hist = NotStale
    /\ YInitIdle
    /\ SyncInitIdle
    /\ JiraInitIdle

StaleCall(c, xy) ==
    /\ NVCall(c, RaceRepo, xy)
    /\ hist' = [hist EXCEPT ![c].stale = FALSE]

\* the webhook of a tag push: the cache is invalidated while some calls hold
\* a listing
StaleTagPush ==
    /\ HandleTagPush(Org, RaceRepo, "v3.8.1")
    /\ hist' = [c \in Callers |->
                  [stale |-> hist[c].stale \/ nvpc[c] = "addRefs"]]

StaleNext ==
    \/ \E ref \in TagRefs(RaceRepo) :
          TagCreated(RaceRepo, ref) /\ UNCHANGED hist
    \/ \E c \in Callers, xy \in Streams : StaleCall(c, xy)
    \/ \E c \in Callers : NVInitFetch(c) /\ UNCHANGED hist
    \/ \E c \in Callers : NVInitFail(c) /\ UNCHANGED hist
    \/ \E c \in Callers : NVAddRefs(c) /\ UNCHANGED hist
    \/ \E c \in Callers : NVRead(c) /\ UNCHANGED hist
    \/ StaleTagPush

SpecStale == StaleInit /\ [][StaleNext]_vars

\* C33: a call whose listing was obtained before an InvalidateCache that has
\* completed since puts no patch number of that listing into the cache and
\* does not mark the repository synced.
C33_StaleListingNotMerged ==
    [][\A c \in Callers :
          (NVAddRefs(c) /\ hist[c].stale) =>
              (synced' = synced /\ tags' = tags)]_vars


(***************************************************************************)
(* matchCondition with no prospective fix version                          *)
(***************************************************************************)
\* C34: a condition with the has-fix-version predicate, evaluated with an
\* empty fix version, does not match, whether the predicate asks for the fix
\* version to be present or to be absent and whatever the other predicates,
\* the issue, the pull request and the event.
C34_NoFixVersionNeverMatches ==
    (mc.called /\ mc.cond.HasFixVersion # <<>> /\ mc.fixVersion = "")
        => ~mc.result

\* a condition with no other predicate that asks for the fix version to be
\* present, evaluated with no prospective fix version: no match
C34_Witness ==
    /\ mc.called
    /\ mc.cond.HasFixVersion = <<TRUE>>
    /\ mc.fixVersion = ""
    /\ mc.cond.Status = <<>>
    /\ mc.cond.Merged = <<>>
    /\ mc.cond.Event = <<>>
    /\ ~mc.result


(***************************************************************************)
(* applyRule: the order of its actions and its failures                    *)
(***************************************************************************)
\* the place of a call in applyRule
ActionRank(op) ==
    CASE op = "UpdateIssue" -> 1
      [] op = "AddComment" -> 2
      [] op = "GetTransitions" -> 3
      [] op = "DoTransition" -> 4

\* a step in which a call of applyRule is made and fails
ApplyRuleFails ==
    \/ SetFixVersion(FALSE) /\ jlog' # jlog
    \/ AddComment(FALSE) /\ jlog' # jlog
    \/ GetTransitions(FALSE)
    \/ DoTransition(FALSE)

\* C35: the calls of the matched rule are made in the order fix-version
\* update, comment, transition, each at most once; a step in which one of
\* them fails ends Run with no error returned, nothing changed in the issue
\* tracker, no later action of the rule carried out and no other rule
\* evaluated.
C35_FailedActionStopsRuleSilently ==
    /\ [](\A m, n \in 1..Len(RuleCalls) :
             m < n => ActionRank(RuleCalls[m].op) < ActionRank(RuleCalls[n].op))
    /\ [][ApplyRuleFails =>
             /\ jpc' = "done"
             /\ jl'.ret = ""
             /\ jira' = jira
             /\ jl'.rule = jl.rule
             /\ jl'.evaluated = jl.evaluated
             /\ Len(jlog') = Len(jlog) + 1]_vars

\* the fix-version update of the first rule failed: Run is over without an
\* error, no comment was posted and no transition made, and the second rule,
\* which matches too, was not evaluated
C35_Witness ==
    /\ jpc = "done"
    /\ jl.ret = ""
    /\ jl.jiraConfig.Rules = <<RuleClose, RuleAny>>
    /\ MatchingRules = {1, 2}
    /\ jl.rule = 1
    /\ jl.evaluated = <<1>>
    /\ Len(RuleCalls) = 1
    /\ RuleCalls[1].op = "UpdateIssue"
    /\ jira.FixVersions = <<>>
    /\ jira.Comments = <<>>
    /\ jira.Status # "Closed"


(***************************************************************************)
(* HandleCheckSuiteRerequest: the first failure                            *)
(***************************************************************************)
\* the pull requests of the check suite after the last one fetched
Later == {cs.prs[n] : n \in (Len(cs.fetched) + 1)..Len(cs.prs)}

GetErr == "failed to get pull request: " \o RemoteErr

\* C36: a failed PullRequests.Get, and a Run that returns an error, end the
\* handling of a check suite at once with that error; when the handler has
\* returned an error the pull requests after the failing one were not
\* fetched and no Run was entered for them, and the handler does nothing
\* more.
C36_FirstFailureEndsSuite ==
    /\ [][(cs.pc = "get" /\ cs'.pc # "run" /\ cs' # cs) =>
             (cs'.pc = "done" /\ cs'.ret = GetErr /\ cs'.runs = cs.runs
              /\ jpc' = jpc)]_vars
    /\ [][(SuiteRunReturn /\ jl.ret # "") =>
             (cs'.pc = "done" /\ cs'.ret = jl.ret
              /\ cs'.fetched = cs.fetched)]_vars
    /\ [][cs.pc = "done" => UNCHANGED <<cs, jlog, gh, jira, jpc>>]_vars
    /\ []((cs.pc = "done" /\ cs.ret # "") =>
             /\ \A n \in 1..Len(PullRequestGets) :
                    PullRequestGets[n].arg.number \notin Later
             /\ \A n \in 1..Len(cs.runs) : cs.runs[n].number \notin Later
             /\ cs.ret = GetErr => Len(cs.runs) = Len(cs.fetched) - 1
             /\ cs.ret # GetErr =>
                    /\ Len(cs.runs) = Len(cs.fetched)
                    /\ cs.ret = jl.ret
                    /\ HasPrefix(cs.ret, "failed to run jira check: "))

\* the Run for the first of two pull requests returned an error: the second
\* was not fetched
C36_Witness ==
    /\ cs.pc = "done"
    /\ cs.prs = <<7, 8>>
    /\ cs.fetched = <<7>>
    /\ cs.runs = Rechecks(<<7>>)
    /\ HasPrefix(cs.ret, "failed to run jira check: ")
    /\ Len(PullRequestGets) = 1
    /\ Later = {8}


(***************************************************************************)
(* The sync pairs of the webhook and of the loop of main                   *)
(***************************************************************************)
\* what syncFrom of a branch can hold: nothing, a branch alone, a branch
\* with owner, repo or both, an owner and a repo without a branch
PairSyncFroms ==
    {NoRef,
     [Owner |-> "", Repo |-> "", Branch |-> "master"],
     [Owner |-> "quay", Repo |-> "quay", Branch |-> "master"],
     [Owner |-> "", Repo |-> "quay", Branch |-> "master"],
     [Owner |-> "quay", Repo |-> "", Branch |-> "master"],
     [Owner |-> "", Repo |-> "", Branch |-> "release"],
     [Owner |-> "quay", Repo |-> "quay", Branch |-> ""]}

PairConfigs ==
    {[AppID |-> 275455,
      Repositories |-> <<
         [Owner |-> "quay", Repo |-> "quay", Jira |-> NoJira,
          Branches |-> <<
             [Name |-> "master", Version |-> "", SyncFrom |-> a],
             [Name |-> "release", Version |-> "3.8", SyncFrom |-> b]>>],
         [Owner |-> "quay", Repo |-> "clair", Jira |-> NoJira,
          Branches |-> <<
             [Name |-> "stable", Version |-> "", SyncFrom |-> c]>>]>>] :
        a, b, c \in PairSyncFroms}

\* the branches a push event can be for
PairPushes ==
    {[Owner |-> "quay", Repo |-> r, Branch |-> b] :
        r \in {"quay", "clair"}, b \in {"master", "release", "stable"}}

PairsInit ==
    /\ cfg \in PairConfigs
    /\ SyncIdle
    /\ TagInit
    /\ YInitIdle
    /\ JiraInitIdle

PairsNext ==
    \/ \E w \in Workers, from \in PairPushes :
          HandleBranchPush(w, from.Owner, from.Repo, from.Branch)
    \/ PeriodicPass

SpecPairs == PairsInit /\ [][PairsNext]_vars

\* the pair is a branch of the configuration with a syncFrom branch, and its
\* source is that syncFrom, a missing owner or repo being the owner or repo
\* of the repository of the branch
ConfiguredPair(pair) ==
    \E i \in 1..Len(cfg.Repositories) :
        LET repo == cfg.Repositories[i]
        IN  \E j \in 1..Len(repo.Branches) :
                LET branch == repo.Branches[j]
                IN  /\ pair.to = [Owner |-> repo.Owner, Repo |-> repo.Repo,
                                  Branch |-> branch.Name]
                    /\ branch.SyncFrom.Branch # ""
                    /\ pair.from.Branch = branch.SyncFrom.Branch
                    /\ pair.from.Owner = IF branch.SyncFrom.Owner = ""
                                         THEN repo.Owner
                                         ELSE branch.SyncFrom.Owner
                    /\ pair.from.Repo = IF branch.SyncFrom.Repo = ""
                                        THEN repo.Repo
                                        ELSE branch.SyncFrom.Repo

QueueOf(p) == {loc[p].queue[i] : i \in 1..Len(loc[p].queue)}

\* C37: for every configuration and every pushed branch S, the destinations
\* HandleBranchPush syncs from S are the destinations D for which a pass of
\* the loop of main calls sync(D, S); every pair of either is a configured
\* branch with a syncFrom branch that is not empty, with the owner and repo
\* of syncFrom taken from the repository of the branch when missing.
C37_WebhookAndLoopAgreeOnPairs ==
    /\ \A w \in Workers :
          (pc[w] = "next" /\ pc[Periodic] = "next") =>
              /\ QueueOf(w) = {pair \in QueueOf(Periodic) :
                                  pair.from = loc[w].pushed}
              /\ \A pair \in QueueOf(w) : pair.from = loc[w].pushed
    /\ \A p \in Procs : \A pair \in QueueOf(p) : ConfiguredPair(pair)
    /\ pc[Periodic] = "next" =>
           \A to, from \in PairPushes :
               ConfiguredPair([to |-> to, from |-> from])
                   => [to |-> to, from |-> from] \in QueueOf(Periodic)

\* release syncs from master of its own repository, given without owner and
\* repo; stable names an owner and a repo but no branch: a push to master
\* and a pass of the loop both sync release alone
C37_Witness ==
    /\ cfg.Repositories[1].Branches[2].SyncFrom
           = [Owner |-> "", Repo |-> "", Branch |-> "master"]
    /\ cfg.Repositories[2].Branches[1].SyncFrom
           = [Owner |-> "quay", Repo |-> "quay", Branch |-> ""]
    /\ cfg.Repositories[1].Branches[1].SyncFrom = NoRef
    /\ pc["w1"] = "next"
    /\ pc[Periodic] = "next"
    /\ loc["w1"].pushed = [Owner |-> "quay", Repo |-> "quay",
                           Branch |-> "master"]
    /\ loc["w1"].queue = loc[Periodic].queue
    /\ Len(loc[Periodic].queue) = 1
    /\ loc[Periodic].queue[1].to.Branch = "release"


(***************************************************************************)
(* deleteOldComments: what it deletes                                      *)
(***************************************************************************)
\* the comments of the pull request before the Run: an internal error of the
\* bot, a comment of somebody else that quotes the marker, a comment of the
\* bot without the marker, an internal error of the bot of time 3
CleanupComments ==
    <<[ID |-> 11, User |-> BotLogin, CreatedAt |-> 1,
       Body |-> "boom\n" \o internalErrorMarker \o "\n"],
      [ID |-> 12, User |-> "alice", CreatedAt |-> 2,
       Body |-> "> " \o internalErrorMarker],
      [ID |-> 13, User |-> BotLogin, CreatedAt |-> 2, Body |-> "synced"],
      [ID |-> 14, User |-> BotLogin, CreatedAt |-> 3,
       Body |-> "boom\n" \o internalErrorMarker \o "\n"]>>

CleanupInit ==
    /\ cfg = CfgJira(JiraOf(<<RuleOpen, RuleClose, RuleAny>>))
    /\ SyncIdle
    /\ YInitIdle
    /\ synced = EmptyMap
    /\ tags = EmptyMap
    /\ remoteTags = [r \in {repoKey(Org, repo) : repo \in Repos} |->
                        IF r = "quay/quay" THEN <<"refs/tags/v3.8.1">>
                        ELSE <<>>]
    /\ nvpc = [c \in Callers |-> "idle"]
    /\ nv = [c \in Callers |-> NoCall]
    /\ ghost = NoGhost
    /\ hist = NoHistory
    /\ jpc = "idle"
    /\ jl = NoJl
    /\ gh \in {[comments |-> c, checkRuns |-> <<>>, time |-> 3] :
                  c \in {CleanupComments, SubSeq(CleanupComments, 3, 4)}}
    /\ jira \in TrackerStates
    /\ jlog = <<>>
    /\ cachedGithubUserLogin = ""
    /\ RestIdle

SpecCleanup == CleanupInit /\ [][JiraNext]_vars

\* the creation time of the result the Run has just reported: the internal
\* error comment it posted, else the check run it created
ResultTimes ==
    IF jl.after = "internal"
    THEN {gh.comments[Len(gh.comments)].CreatedAt}
    ELSE {gh.checkRuns[n].CompletedAt : n \in 1..Len(gh.checkRuns)}

Deleted(comm) ==
    \A i \in 1..Len(gh'.comments) : gh'.comments[i].ID # comm.ID

\* C38: every comment a step removes from the pull request was written by
\* the bot, holds the internal-error marker and was created strictly before
\* the result the Run has just reported; so the internal-error comment just
\* posted, the comments of others and the comments without the marker stay.
C38_CleanupDeletesOnlyOldBotErrors ==
    [][\A i \in 1..Len(gh.comments) :
          Deleted(gh.comments[i]) =>
              /\ gh.comments[i].User = BotLogin
              /\ cachedGithubUserLogin = BotLogin
              /\ Contains(gh.comments[i].Body, internalErrorMarker)
              /\ \E t \in ResultTimes : gh.comments[i].CreatedAt < t
              /\ jl.after = "internal" => i # Len(gh.comments)]_vars

\* after a failed Issue.Get the Run has posted its comment at time 4 and
\* deleted both old internal errors of the bot: the comment of alice, the
\* bot's comment without the marker and the new comment are left
C38_Witness ==
    /\ jpc = "done"
    /\ jl.after = "internal"
    /\ Len(gh.comments) = 3
    /\ gh.comments[1] = CleanupComments[2]
    /\ gh.comments[2] = CleanupComments[3]
    /\ gh.comments[3].User = BotLogin
    /\ gh.comments[3].CreatedAt = 4
    /\ Contains(gh.comments[3].Body, internalErrorMarker)


(***************************************************************************)
(* Webhook deliveries and the loop of main together                        *)
(***************************************************************************)
BothInit == SyncInitIdle /\ TagInit /\ YInitIdle /\ JiraInitIdle

BothNext ==
    \/ SyncNext
    \/ PeriodicStep

SpecBoth == BothInit /\ [][BothNext]_vars


\* the configured pair of the sync p is in
PairOf(p) == [to |-> loc[p].dest, from |-> loc[p].src]

\* an UpdateRef call of p is sent in this step
UpdateRefSent(p) == UpdateRef(p) \/ UpdateRefFail(p)

\* C39: every UpdateRef sent, by a webhook handler or by the loop of main,
\* is for the destination of a configured pair, not forced, with the commit
\* the same sync call read as the head of the source of that pair, after
\* its two GetRef calls and no other call, both answered, with different
\* commits; and no call in any log writes another branch.
C39_UpdateRefOnlyToDestinations ==
    /\ [][\A p \in Procs :
             UpdateRefSent(p) =>
                /\ Configured(PairOf(p))
                /\ loc[p].log
                     = <<[op |-> "GetRef", ref |-> String(loc[p].src),
                          sha |-> "", force |-> FALSE],
                         [op |-> "GetRef", ref |-> String(loc[p].dest),
                          sha |-> "", force |-> FALSE]>>
                /\ loc[p].srcSHA # ""
                /\ loc[p].dstSHA # ""
                /\ loc[p].srcSHA # loc[p].dstSHA
                /\ loc'[p].log
                     = Append(loc[p].log,
                              [op |-> "UpdateRef", ref |-> String(loc[p].dest),
                               sha |-> loc[p].srcSHA, force |-> FALSE])]_vars
    /\ [](\A p \in Procs : \A n \in 1..Len(loc[p].log) :
             loc[p].log[n].op = "UpdateRef" =>
                /\ loc[p].log[n].ref \in Destinations(cfg)
                /\ loc[p].log[n].ref \notin {"quay/quay:master",
                                             "quay/clair:stable"})
    /\ [][\A k \in BranchKeys :
             (heads'[k] # heads[k] /\ ~SourcePush(k) /\ ~DestDiverge(k))
                 => k \in Destinations(cfg)]_vars

\* the handler of a push to master and the loop of main both read the heads
\* before either wrote, and both have sent UpdateRef for release with the
\* commit of master
C39_Witness ==
    /\ heads["quay/quay:release"] = "c2"
    /\ \A p \in Procs :
          /\ pc[p] = "statusOk"
          /\ Len(loc[p].log) = 3
          /\ loc[p].log[3] = [op |-> "UpdateRef", ref |-> "quay/quay:release",
                              sha |-> "c2", force |-> FALSE]



(***************************************************************************)
(* Convergence of a pair after racing syncs                                *)
(***************************************************************************)
\* deliveries and the loop of main together, the loop running in its own
\* goroutine; nothing is assumed of the deliveries
SpecConverge == BothInit /\ [][BothNext]_vars /\ PeriodicFair

\* a branch of the pair is committed to by somebody else in this step
PairMovedOutside(pair) ==
    \E k \in {String(pair.from), String(pair.to)} :
        SourcePush(k) \/ DestDiverge(k)

\* a call to the hosting service fails in this step
RemoteCallFails ==
    \E p \in Procs : GetSrcFail(p) \/ GetDstFail(p) \/ UpdateRefFail(p)

\* the destination can be fast-forwarded to the source
Behind(pair) ==
    /\ Configured(pair)
    /\ FastForward(heads[String(pair.to)], heads[String(pair.from)])

\* the heads of the pair are equal and the store says so
Converged(pair) ==
    /\ heads[String(pair.to)] = heads[String(pair.from)]
    /\ StatusOf(status, heap, String(pair.to)).Status = "Synced"
    /\ StatusOf(status, heap, String(pair.to)).Message
         = "synched from " \o String(pair.from) \o ", commit: "
               \o heads[String(pair.from)]

\* C40: for a configured pair, when from some point on nobody but sync
\* moves its branches, no call to the hosting service fails and the
\* destination is the source or an ancestor of it, then from some point on
\* the heads are equal and the entry of the destination is Synced with the
\* commit of the source, for ever.
C40_PairConvergesAfterRaces ==
    \A pair \in AllPairs :
        (/\ <>[][~PairMovedOutside(pair) /\ ~RemoteCallFails]_vars
         /\ <>[]Behind(pair))
            => <>[]Converged(pair)

\* the handler of a push read master before the commit c2 and is about to
\* store Synced with c1, after the loop of main moved release to c2 and
\* stored Synced with c2
C40_Witness ==
    /\ heads["quay/quay:master"] = "c2"
    /\ Converged([to |-> [Owner |-> "quay", Repo |-> "quay", Branch |-> "release"],
                  from |-> [Owner |-> "quay", Repo |-> "quay", Branch |-> "master"]])
    /\ \E w \in Workers :
          /\ pc[w] \in {"statusOk", "statusErr", "update"}
          /\ loc[w].srcSHA = "c1"
    /\ pc[Periodic] = "sleep"

====
